---- MODULE Spec2Model ----
(***************************************************************************)
(* Reminder scheduling core of the cortana bot: the schedule grammar       *)
(* (reminders.parse_schedule), the trigger builder, the APScheduler job    *)
(* set as reminders.schedule_one / unschedule_one drive it, the dispatcher *)
(* coroutine _run_reminder_async, the owner's /rem_* handlers of main.py   *)
(* and the boot sequence of main.main.                                     *)
(*                                                                         *)
(* Text is a sequence of one-character strings.  An instant is a number of *)
(* seconds since Monday 2026-01-19 00:00 in America/Bogota (UTC-5).        *)
(***************************************************************************)
EXTENDS Integers, Sequences, FiniteSets, TLC

\* ------------------------------------------------------------------ bounds

\* Reminder ids the store hands out (AUTOINCREMENT: 1, 2, ..., never reused).
MaxReminders == 2
\* Last calendar day (counted from the epoch) the clock reaches.
MaxDay == 1
\* Owner commands handled in one behaviour.
MaxCommands == 3
\* Times the process ends in one behaviour.
MaxStops == 1
\* Chats the owner writes from.
MaxChats == 1
\* Dispatcher coroutines alive on the event loop at a time.
MaxCoros == 2

\* --------------------------------------------------------- program constants

\* SQL NULL in the columns last_run_at / next_run_at, None in Python.
NULL == -1
\* schedule_one(..., misfire_grace_seconds: int = 300)
MisfireGraceSeconds == 300
\* add_job(..., max_instances=1)
MaxInstances == 1
\* BOGOTA_TZ = timezone(timedelta(hours=-5)), in seconds east of UTC.
BogotaUtcOffset == -18000
\* cmd_rem_test: datetime.now(BOGOTA_TZ) + timedelta(minutes=2), in seconds.
TestDelaySeconds == 120

SecondsPerMinute == 60
SecondsPerHour == 60 * SecondsPerMinute
SecondsPerDay == 24 * SecondsPerHour

\* ------------------------------------------------------------------- text

Min(S) == CHOOSE x \in S : \A y \in S : x <= y
Max(S) == CHOOSE x \in S : \A y \in S : x >= y

Lowers == <<"a","b","c","d","e","f","g","h","i","j","k","l","m",
            "n","o","p","q","r","s","t","u","v","w","x","y","z">>
Uppers == <<"A","B","C","D","E","F","G","H","I","J","K","L","M",
            "N","O","P","Q","R","S","T","U","V","W","X","Y","Z">>
Digits == <<"0","1","2","3","4","5","6","7","8","9">>

IndexIn(c, alphabet) ==
    IF \E i \in 1..Len(alphabet) : alphabet[i] = c
    THEN CHOOSE i \in 1..Len(alphabet) : alphabet[i] = c
    ELSE 0

\* str.upper() and str.lower(), character by character.
UpperOf == [c \in {Lowers[i] : i \in 1..Len(Lowers)} |-> Uppers[IndexIn(c, Lowers)]]
LowerOf == [c \in {Uppers[i] : i \in 1..Len(Uppers)} |-> Lowers[IndexIn(c, Uppers)]]
UpperChar(c) == IF c \in DOMAIN UpperOf THEN UpperOf[c] ELSE c
LowerChar(c) == IF c \in DOMAIN LowerOf THEN LowerOf[c] ELSE c
Upper(s) == [i \in 1..Len(s) |-> UpperChar(s[i])]
Lower(s) == [i \in 1..Len(s) |-> LowerChar(s[i])]

DigitOf == [c \in {Digits[i] : i \in 1..Len(Digits)} |-> IndexIn(c, Digits) - 1]
IsDigit(c) == c \in DOMAIN DigitOf
DigitVal(c) == DigitOf[c]
IsSpace(c) == c = " "

\* str.strip(): leading and trailing whitespace removed.
Strip(s) ==
    LET keep == {i \in 1..Len(s) : ~IsSpace(s[i])}
    IN  IF keep = {} THEN <<>> ELSE SubSeq(s, Min(keep), Max(keep))

\* str.startswith(prefix)
StartsWith(s, prefix) ==
    /\ Len(s) >= Len(prefix)
    /\ SubSeq(s, 1, Len(prefix)) = prefix

\* str.split(sep): the pieces between the occurrences of the character sep.
Split(s, sep) ==
    LET cuts == {i \in 1..Len(s) : s[i] = sep}
        n == Cardinality(cuts)
        \* position of the k-th separator; 0 before the first, Len+1 after the last
        cut(k) == IF k = 0 THEN 0
                  ELSE IF k = n + 1 THEN Len(s) + 1
                  ELSE CHOOSE i \in cuts : Cardinality({j \in cuts : j < i}) = k - 1
    IN  [k \in 1..(n + 1) |-> SubSeq(s, cut(k - 1) + 1, cut(k) - 1)]

\* str.split(sep, 1)[1]: what follows the first sep (callers have checked there is one).
AfterFirst(s, sep) ==
    LET cuts == {i \in 1..Len(s) : s[i] = sep}
    IN  SubSeq(s, Min(cuts) + 1, Len(s))

\* sep.join(parts)
RECURSIVE Join(_, _)
Join(parts, sep) ==
    IF Len(parts) = 0 THEN <<>>
    ELSE IF Len(parts) = 1 THEN parts[1]
    ELSE parts[1] \o <<sep>> \o Join(Tail(parts), sep)

\* [x for x in parts if keep(x)] with keep = "non-empty after strip", each stripped.
RECURSIVE StrippedNonEmpty(_)
StrippedNonEmpty(parts) ==
    IF Len(parts) = 0 THEN <<>>
    ELSE LET t == Strip(parts[1])
         IN  (IF Len(t) > 0 THEN <<t>> ELSE <<>>) \o StrippedNonEmpty(Tail(parts))

\* ---------------------------------------------------------------- parser.py

\* Python's None where the other values are tuples or text (both falsy when empty).
None == <<>>

\* The hour pattern written [0-2]?\d : 24 to 29 pass.
HourMatchesTo29(hh) ==
    \/ /\ Len(hh) = 1
       /\ IsDigit(hh[1])
    \/ /\ Len(hh) = 2
       /\ hh[1] \in {"0", "1", "2"}
       /\ IsDigit(hh[2])

\* ([01]?\d|2[0-3]) of parse_hhmm's pattern
HourMatches(hh) ==
    \/ /\ Len(hh) = 1
       /\ IsDigit(hh[1])
    \/ /\ Len(hh) = 2
       /\ hh[1] \in {"0", "1"}
       /\ IsDigit(hh[2])
    \/ /\ Len(hh) = 2
       /\ hh[1] = "2"
       /\ hh[2] \in {"0", "1", "2", "3"}

\* ([0-5]\d) of parse_hhmm's pattern
MinuteMatches(mm) ==
    /\ Len(mm) = 2
    /\ mm[1] \in {"0", "1", "2", "3", "4", "5"}
    /\ IsDigit(mm[2])

\* int(m.group(1)), int(m.group(2))
IntOf(digits) ==
    IF Len(digits) = 1 THEN DigitVal(digits[1])
    ELSE 10 * DigitVal(digits[1]) + DigitVal(digits[2])

\* The position of the first ":" of s, 0 without one.
ColonAt(s) ==
    IF \E i \in 1..Len(s) : s[i] = ":" THEN Min({i \in 1..Len(s) : s[i] = ":"}) ELSE 0

\* The match of the pattern with the groups hh and mm around the colon.
MatchHhmm(hh, mm) ==
    IF HourMatches(hh) /\ MinuteMatches(mm) THEN <<IntOf(hh), IntOf(mm)>> ELSE None

\* The match of ^([01]?\d|2[0-3]):([0-5]\d)$ on s with its first colon at p.
MatchAt(s, p) ==
    IF p = 0 THEN None ELSE MatchHhmm(SubSeq(s, 1, p - 1), SubSeq(s, p + 1, Len(s)))

\* parse_hhmm: s.strip() matched against ^([01]?\d|2[0-3]):([0-5]\d)$ ;
\* the result is <<hour, minute>>, or None.
parse_hhmm(s0) == MatchAt(Strip(s0), ColonAt(Strip(s0)))

IsLeap(y) == (y % 4 = 0 /\ y % 100 # 0) \/ y % 400 = 0

DaysInMonth(y, m) ==
    IF m = 2 THEN (IF IsLeap(y) THEN 29 ELSE 28)
    ELSE IF m \in {4, 6, 9, 11} THEN 30 ELSE 31

\* The digits of YYYY-MM-DD as a date <<year, month, day>>, None off the calendar.
DateOf(y, m, d) ==
    IF y >= 1 /\ m \in 1..12 /\ d \in 1..DaysInMonth(y, m) THEN <<y, m, d>> ELSE None

\* The text s of shape dddd-dd-dd as a date, None for any other shape.
MatchDate(s) ==
    IF /\ Len(s) = 10
       /\ s[5] = "-"
       /\ s[8] = "-"
       /\ \A i \in {1, 2, 3, 4, 6, 7, 9, 10} : IsDigit(s[i])
    THEN DateOf(100 * IntOf(SubSeq(s, 1, 2)) + IntOf(SubSeq(s, 3, 4)),
                IntOf(SubSeq(s, 6, 7)), IntOf(SubSeq(s, 9, 10)))
    ELSE None

\* parse_yyyy_mm_dd: a strict calendar parse of YYYY-MM-DD; the result is the
\* date <<year, month, day>>, or None.
parse_yyyy_mm_dd(s0) == MatchDate(Strip(s0))

\* ------------------------------------------------------------- reminders.py

DAY_TOKENS == << <<"m","o","n">>, <<"t","u","e">>, <<"w","e","d">>, <<"t","h","u">>,
                <<"f","r","i">>, <<"s","a","t">>, <<"s","u","n">> >>
WEEKDAY_DOW == <<"m","o","n",",","t","u","e",",","w","e","d",",","t","h","u",",","f","r","i">>
WEEKEND_DOW == <<"s","a","t",",","s","u","n">>
EVERYDAY_DOW == WEEKDAY_DOW \o <<",">> \o WEEKEND_DOW

\* A ValueError raised by the parser, carrying its reason.
ValueError(reason) == [ok |-> FALSE, reason |-> reason]
\* ParsedSchedule(kind, dow, date_once, hhmm)
ParsedSchedule(kind, dow, date_once, hhmm) ==
    [ok |-> TRUE, kind |-> kind, dow |-> dow, date_once |-> date_once, hhmm |-> hhmm]

\* _validate_time: TRUE when it returns, FALSE when it raises ValueError.
validate_time(hhmm) == parse_hhmm(hhmm) # None

\* _validate_days_part: the joined tokens, or the ValueError it raises.
validate_days_part(days_part) ==
    LET raw == Lower(Strip(days_part))
        tokens == StrippedNonEmpty(Split(raw, ","))
    IN  IF Len(tokens) = 0 THEN ValueError("DAYS requiere al menos un dia")
        ELSE IF \E i \in 1..Len(tokens) : IndexIn(tokens[i], DAY_TOKENS) = 0
             THEN ValueError("Dia invalido")
        ELSE [ok |-> TRUE, dow |-> Join(tokens, ",")]

KwWeekday == <<"W","E","E","K","D","A","Y","@">>
KwWeekend == <<"W","E","E","K","E","N","D","@">>
KwEveryday == <<"E","V","E","R","Y","D","A","Y","@">>
KwDaily == <<"D","A","I","L","Y","@">>
KwDays == <<"D","A","Y","S","@">>
KwOnce == <<"O","N","C","E","@">>

\* A branch KIND@HH:MM of parse_schedule, hhmm being s.split("@", 1)[1].
SimpleSchedule(kind, dow, hhmm) ==
    IF validate_time(hhmm) THEN ParsedSchedule(kind, dow, None, hhmm)
    ELSE ValueError("Hora invalida")

\* The branch DAYS@...@HH:MM of parse_schedule, dow being what _validate_days_part
\* returned or raised.
DaysSchedule(dow, hhmm) ==
    IF dow.ok THEN ParsedSchedule("DAYS", dow.dow, None, hhmm) ELSE dow

\* parse_schedule with the WEEKEND branch returning the kind of the branch above it.
ParseStrippedCopied(s, up, parts) ==
    IF StartsWith(up, KwWeekday)
    THEN SimpleSchedule("WEEKDAY", WEEKDAY_DOW, AfterFirst(s, "@"))
    ELSE IF StartsWith(up, KwWeekend)
    THEN SimpleSchedule("WEEKDAY", WEEKEND_DOW, AfterFirst(s, "@"))
    ELSE IF StartsWith(up, KwEveryday) \/ StartsWith(up, KwDaily)
    THEN SimpleSchedule("EVERYDAY", EVERYDAY_DOW, AfterFirst(s, "@"))
    ELSE IF StartsWith(up, KwDays)
    THEN IF Len(parts) # 3 THEN ValueError("Formato DAYS invalido")
         ELSE IF ~validate_time(parts[3]) THEN ValueError("Hora invalida")
         ELSE DaysSchedule(validate_days_part(parts[2]), parts[3])
    ELSE IF StartsWith(up, KwOnce)
    THEN IF Len(parts) # 3 THEN ValueError("Formato ONCE invalido")
         ELSE IF parse_yyyy_mm_dd(parts[2]) = None THEN ValueError("Fecha invalida")
         ELSE IF ~validate_time(parts[3]) THEN ValueError("Hora invalida")
         ELSE ParsedSchedule("ONCE", None, parts[2], parts[3])
    ELSE ValueError("Schedule invalido")

\* parse_schedule after s = schedule.strip(), up = s.upper(), parts = s.split("@").
ParseStripped(s, up, parts) ==
    IF StartsWith(up, KwWeekday)
    THEN SimpleSchedule("WEEKDAY", WEEKDAY_DOW, AfterFirst(s, "@"))
    ELSE IF StartsWith(up, KwWeekend)
    THEN SimpleSchedule("WEEKEND", WEEKEND_DOW, AfterFirst(s, "@"))
    ELSE IF StartsWith(up, KwEveryday) \/ StartsWith(up, KwDaily)
    THEN SimpleSchedule("EVERYDAY", EVERYDAY_DOW, AfterFirst(s, "@"))
    ELSE IF StartsWith(up, KwDays)
    THEN IF Len(parts) # 3 THEN ValueError("Formato DAYS invalido")
         ELSE IF ~validate_time(parts[3]) THEN ValueError("Hora invalida")
         ELSE DaysSchedule(validate_days_part(parts[2]), parts[3])
    ELSE IF StartsWith(up, KwOnce)
    THEN IF Len(parts) # 3 THEN ValueError("Formato ONCE invalido")
         ELSE IF parse_yyyy_mm_dd(parts[2]) = None THEN ValueError("Fecha invalida")
         ELSE IF ~validate_time(parts[3]) THEN ValueError("Hora invalida")
         ELSE ParsedSchedule("ONCE", None, parts[2], parts[3])
    ELSE ValueError("Schedule invalido")

\* parse_schedule: the ParsedSchedule, or the ValueError it raises.
parse_schedule(schedule) ==
    ParseStripped(Strip(schedule), Upper(Strip(schedule)), Split(Strip(schedule), "@"))

\* str(n) of an int, as an f-string formats it: decimal digits, "-" before a
\* negative number, no padding.
RECURSIVE IntStr(_)
IntStr(n) ==
    IF n < 0 THEN <<"-">> \o IntStr(-n)
    ELSE IF n < 10 THEN <<Digits[n + 1]>>
    ELSE IntStr(n \div 10) \o <<Digits[(n % 10) + 1]>>

\* job_id_for with the two ids written one after the other.
job_id_for_joined(user_id, reminder_id) ==
    <<"r", "e", "m", "_">> \o IntStr(user_id) \o IntStr(reminder_id)

\* job_id_for: f"rem_{user_id}_{reminder_id}"
job_id_for(user_id, reminder_id) ==
    <<"r", "e", "m", "_">> \o IntStr(user_id) \o <<"_">> \o IntStr(reminder_id)

\* ------------------------------------------------------------------ state

VARIABLES
    now,        \* the wall clock, an instant
    phase,      \* "down": no process; "running": main() has reached run_polling, the
                \* loop is recorded, the scheduler and the handlers are live;
                \* "starting": the scheduler runs, no loop is recorded yet
    tzdata,     \* whether ZoneInfo can resolve zone names on this machine
    chat,       \* users.telegram_chat_id of the owner's row; NoUser without a row
    reminders,  \* the reminders table: id -> row
    nextId,     \* the next AUTOINCREMENT id of the reminders table
    jobs,       \* the scheduler's job store: a set of jobs
    calls,      \* per reminder id, the schedule_one calls that built a job (process life)
    runners,    \* _runner invocations submitted to the executor and not yet returned
    coros,      \* _run_reminder_async coroutines handed to the event loop, oldest first
    ev,         \* what the latest step did, if it was a step of the dispatcher or
                \* the start of a process; NoEvent otherwise
    delivered,  \* ids of the reminders a delivery has succeeded for
    ncmd,       \* owner commands handled so far
    nstop,      \* process ends so far
    tasks,      \* the tasks table: id -> row
    nextTaskId, \* the next AUTOINCREMENT id of the tasks table
    ret         \* the latest call on the tasks table and the rows it wrote

vars == <<now, phase, tzdata, chat, reminders, nextId, jobs, calls, runners, coros, ev,
          delivered, ncmd, nstop, tasks, nextTaskId, ret>>

Rids == 1..MaxReminders
\* The chats the owner writes from (update.effective_chat.id).
Chats == 101..(100 + MaxChats)
NoUser == 0
\* users.id of the owner's row, the first row of the table.
OwnerUserId == 1
NoEvent == [type |-> "none", rid |-> 0, chat_id |-> 0, cancelled |-> FALSE]
\* No call on the tasks table yet.
NoCall == [op |-> "none", count |-> 0]
\* main() has reconciled the scheduler with the store.
BootEvent == [NoEvent EXCEPT !.type = "boot"]
Event(type, c) == [type |-> type, rid |-> c.rid, chat_id |-> c.chat_id, cancelled |-> c.cancelled]

BogotaZone == "America/Bogota"
\* Python's None in the timezone column (the column is nullable).
MissingZone == "None"

\* The schedule texts the owner sends with /rem_add.
SchEveryday == <<"E","V","E","R","Y","D","A","Y","@","0","9",":","0","0">>
SchOnce == <<"O","N","C","E","@","2","0","2","6","-","0","1","-","1","9","@","0","9",":","0","0">>
SchBadHour == <<"W","E","E","K","D","A","Y","@","2","5",":","0","0">>
AddSchedules == {SchEveryday, SchOnce, SchBadHour}

\* ------------------------------------------------------------------ clock

\* datetime(year, month, day): days since the epoch 2026-01-19 (a Monday), by the
\* proleptic Gregorian calendar.
DaysFromCivil(date) ==
    LET y == IF date[2] <= 2 THEN date[1] - 1 ELSE date[1]
        era == y \div 400
        yoe == y - era * 400
        mp == IF date[2] > 2 THEN date[2] - 3 ELSE date[2] + 9
        doy == (153 * mp + 2) \div 5 + date[3] - 1
        doe == yoe * 365 + yoe \div 4 - yoe \div 100 + doy
    IN  era * 146097 + doe
DayNumber(date) == DaysFromCivil(date) - DaysFromCivil(<<2026, 1, 19>>)

\* get_tz: the zone, as its offset from UTC in seconds; UTC when ZoneInfo raises.
get_tz(tzname) == IF tzdata /\ tzname = BogotaZone THEN BogotaUtcOffset ELSE 0

\* The instant at which the wall clock of zone tz shows time-of-day tod on day d.
InstantOf(d, tod, tz) == d * SecondsPerDay + tod - (tz - BogotaUtcOffset)

\* The instants the clock visits: around the instant at which a 09:00 schedule
\* of zone America/Bogota fires each day, in the zone get_tz resolves it to, up
\* to that instant of the last day.
FireTod == 9 * SecondsPerHour
Offsets == {-30, 0, 30, 330}
Instants ==
    {InstantOf(d, FireTod, get_tz(BogotaZone)) + o : d \in 0..(MaxDay - 1), o \in Offsets}
        \cup {InstantOf(MaxDay, FireTod, get_tz(BogotaZone))}

\* ---------------------------------------------------------------- triggers

\* CronTrigger day_of_week="mon,tue": the weekdays named, Monday = 0.
DowSet(dow) ==
    LET tokens == Split(dow, ",")
    IN  {IndexIn(tokens[i], DAY_TOKENS) - 1 : i \in 1..Len(tokens)}

\* build_trigger with a rule for every day of the week, whatever the form.
build_trigger_all_days(parsed, tzname) ==
    [type |-> "cron", dow |-> 0..6,
     tod |-> parse_hhmm(parsed.hhmm)[1] * SecondsPerHour
                 + parse_hhmm(parsed.hhmm)[2] * SecondsPerMinute,
     tz |-> get_tz(tzname), run_date |-> NULL]

\* build_trigger: CronTrigger(day_of_week, hour, minute, second=0, timezone) or
\* DateTrigger(run_date, timezone).
build_trigger(parsed, tzname) ==
    LET tz == get_tz(tzname)
        hm == parse_hhmm(parsed.hhmm)
        tod == hm[1] * SecondsPerHour + hm[2] * SecondsPerMinute
    IN  IF parsed.kind \in {"WEEKDAY", "WEEKEND", "DAYS", "EVERYDAY"}
        THEN [type |-> "cron", dow |-> DowSet(parsed.dow), tod |-> tod, tz |-> tz,
              run_date |-> NULL]
        ELSE [type |-> "date", dow |-> {}, tod |-> tod, tz |-> tz,
              run_date |-> InstantOf(DayNumber(parse_yyyy_mm_dd(parsed.date_once)), tod, tz)]

\* CronTrigger: the first instant >= t at which the rule fires.
CronNext(trigger, t) ==
    LET shift == trigger.tz - BogotaUtcOffset
        d0 == (t + shift) \div SecondsPerDay
        fires == {InstantOf(d0 + k, trigger.tod, trigger.tz) : k \in
                     {k \in 0..7 : (d0 + k) % 7 \in trigger.dow}}
    IN  Min({f \in fires : f >= t})

\* trigger.get_next_fire_time(previous_fire_time, now); NULL for None.  The clock
\* reading t is in whole seconds and stands for a moment within the second that
\* starts at t: for a job without a previous fire time CronTrigger searches from
\* datetime_ceil(now), the next whole second.
get_next_fire_time(trigger, previous_fire_time, t) ==
    IF trigger.type = "date"
    THEN IF previous_fire_time = NULL THEN trigger.run_date ELSE NULL
    ELSE IF previous_fire_time = NULL THEN CronNext(trigger, t + 1)
    ELSE CronNext(trigger, IF t >= previous_fire_time THEN previous_fire_time + 1 ELSE t)

\* Job._get_run_times(now) with coalesce=True: the latest fire time <= now, starting
\* from the job's next_run_time.
RECURSIVE LastRunTime(_, _, _)
LastRunTime(trigger, run_time, t) ==
    LET next == get_next_fire_time(trigger, run_time, t)
    IN  IF next # NULL /\ next <= t THEN LastRunTime(trigger, next, t) ELSE run_time

\* ------------------------------------------------------------------ db.py

\* create_reminder: the row INSERTed (active=1, run times NULL).
NewRow(id, user_id, schedule, timezone) ==
    [id |-> id, user_id |-> user_id, schedule |-> schedule, timezone |-> timezone,
     active |-> 1, last_run_at |-> NULL, next_run_at |-> NULL]

\* update_reminder_active: UPDATE reminders SET active=? WHERE user_id=? AND id=?
update_reminder_active(rs, user_id, reminder_id, active) ==
    [r \in DOMAIN rs |->
        IF r = reminder_id /\ rs[r].user_id = user_id
        THEN [rs[r] EXCEPT !.active = active] ELSE rs[r]]

\* cur.rowcount > 0 of the UPDATE / DELETE ... WHERE user_id=? AND id=?
RowMatches(rs, user_id, reminder_id) ==
    reminder_id \in DOMAIN rs /\ rs[reminder_id].user_id = user_id

\* delete_reminder: DELETE FROM reminders WHERE user_id=? AND id=?
delete_reminder(rs, user_id, reminder_id) ==
    [r \in {x \in DOMAIN rs : ~(x = reminder_id /\ rs[x].user_id = user_id)} |-> rs[r]]

\* update_reminder_run_times: UPDATE reminders SET last_run_at=?, next_run_at=? WHERE id=?
update_reminder_run_times(rs, reminder_id, last_run_at, next_run_at) ==
    [r \in DOMAIN rs |->
        IF r = reminder_id
        THEN [rs[r] EXCEPT !.last_run_at = last_run_at, !.next_run_at = next_run_at]
        ELSE rs[r]]

\* ------------------------------------------------------------ the job store

\* add_job without replace_existing's effect: the job stored under the id stays.
add_job_keep(js, job) == js \cup {job}

\* scheduler.add_job(_runner, trigger, id=jid, replace_existing=True, ...): the job
\* replaces the one stored under the same id.
add_job(js, job) == {j \in js : j.id # job.id} \cup {job}

\* unschedule_one leaving the job in place.
unschedule_one_keep(js, user_id, reminder_id) == js

\* unschedule_one removing every job of the user.
unschedule_one_user(js, user_id, reminder_id) ==
    {j \in js : SubSeq(j.id, 1, Len(IntStr(user_id)) + 5)
                    # <<"r", "e", "m", "_">> \o IntStr(user_id) \o <<"_">>}

\* unschedule_one: scheduler.remove_job(jid), JobLookupError swallowed.
unschedule_one(js, user_id, reminder_id) ==
    {j \in js : j.id # job_id_for(user_id, reminder_id)}

\* scheduler.get_job(jid) and its next_run_time; NULL without a job or before the
\* scheduler has started.
JobNextRunTime(js, jid) ==
    IF \E j \in js : j.id = jid
    THEN (CHOOSE j \in js : j.id = jid).next_run_time
    ELSE NULL

\* row.get("timezone") or "America/Bogota"
RowZone(row) == IF row.timezone \in {"", MissingZone} THEN BogotaZone ELSE row.timezone

\* Whether schedule_one reaches add_job: the row is active and its schedule parses.
SchedulesJob(row) == row.active = 1 /\ parse_schedule(row.schedule).ok

\* The job schedule_one builds: the trigger, and the _runner closure over rid and
\* chat_id.  n numbers the schedule_one calls for the key, naming the trigger
\* object this call built.  A started scheduler computes next_run_time at once; a
\* scheduler not yet started keeps the job pending, with no next_run_time.  The
\* field late records that the job is a one-shot whose run date had passed at t,
\* when it was installed.
NewJob(row, chat_id, n, started, t) ==
    LET trigger == build_trigger(parse_schedule(row.schedule), RowZone(row))
    IN  [id |-> job_id_for(row.user_id, row.id), rid |-> row.id, chat_id |-> chat_id,
         trigger |-> trigger, n |-> n,
         next_run_time |-> IF started THEN get_next_fire_time(trigger, NULL, t) ELSE NULL,
         late |-> trigger.type = "date" /\ trigger.run_date <= t]

\* schedule_one refusing a row whose zone ZoneInfo does not resolve.
schedule_one_jobs_strict(js, row, chat_id, n, started, t) ==
    IF row.active # 1 THEN unschedule_one(js, row.user_id, row.id)
    ELSE IF ~parse_schedule(row.schedule).ok THEN js
    ELSE IF ~(tzdata /\ RowZone(row) = BogotaZone) THEN js
    ELSE add_job(js, NewJob(row, chat_id, n, started, t))

\* schedule_one, its effect on the job store.
schedule_one_jobs(js, row, chat_id, n, started, t) ==
    IF row.active # 1 THEN unschedule_one(js, row.user_id, row.id)
    ELSE IF ~parse_schedule(row.schedule).ok THEN js
    ELSE add_job(js, NewJob(row, chat_id, n, started, t))

\* schedule_one leaving last_run_at as it is recorded.
schedule_one_rows_keep(rs, row) ==
    IF SchedulesJob(row)
    THEN update_reminder_run_times(rs, row.id, rs[row.id].last_run_at, NULL)
    ELSE rs

\* schedule_one, its effect on the reminders table.
schedule_one_rows(rs, row) ==
    IF SchedulesJob(row) THEN update_reminder_run_times(rs, row.id, NULL, NULL) ELSE rs

\* ------------------------------------------------------------ the event loop

Remove(seq, i) == SubSeq(seq, 1, i - 1) \o SubSeq(seq, i + 1, Len(seq))

\* The loop runs its ready callbacks in the order they were queued: a coroutine
\* handed over by run_coroutine_threadsafe has its first step run before the
\* handler that was on the loop at that moment resumes from its await, hence
\* before any later handler starts.  "waited" marks a queued coroutine that one
\* handler has already run ahead of.
HandlerMayRun == \A i \in 1..Len(coros) : ~(coros[i].st = "queued" /\ coros[i].waited)
AfterHandler(cs) ==
    [i \in 1..Len(cs) |-> IF cs[i].st = "queued" THEN [cs[i] EXCEPT !.waited = TRUE] ELSE cs[i]]

\* ... where the handler was a removal (rem_off, rem_del) of reminder rid: the
\* queued coroutines of that reminder are marked "cancelled", for the record.
AfterRemoval(cs, rid) ==
    [i \in 1..Len(cs) |->
        IF cs[i].st = "queued"
        THEN [cs[i] EXCEPT !.waited = TRUE, !.cancelled = @ \/ cs[i].rid = rid]
        ELSE cs[i]]

\* ------------------------------------------------------------------ main.py

\* The date of day number d (days since the epoch), as <<year, month, day>>.
CivilFromDays(d) ==
    LET z == d + DaysFromCivil(<<2026, 1, 19>>)
        era == z \div 146097
        doe == z - era * 146097
        yoe == (doe - doe \div 1460 + doe \div 36524 - doe \div 146096) \div 365
        doy == doe - (365 * yoe + yoe \div 4 - yoe \div 100)
        mp == (5 * doy + 2) \div 153
        m == IF mp < 10 THEN mp + 3 ELSE mp - 9
    IN  <<yoe + era * 400 + (IF m <= 2 THEN 1 ELSE 0), m, doy - (153 * mp + 2) \div 5 + 1>>

\* A number in decimal, zero-padded to width digits.
RECURSIVE Decimal(_, _)
Decimal(x, width) ==
    IF width = 0 THEN <<>> ELSE Decimal(x \div 10, width - 1) \o <<Digits[(x % 10) + 1]>>

\* cmd_rem_test: f"ONCE@{now.strftime('%Y-%m-%d')}@{now.strftime('%H:%M')}" for
\* now = datetime.now(BOGOTA_TZ) + timedelta(minutes=2).
TestSchedule(t) ==
    LET at == t + TestDelaySeconds
        date == CivilFromDays(at \div SecondsPerDay)
        tod == at % SecondsPerDay
    IN  KwOnce \o Decimal(date[1], 4) \o <<"-">> \o Decimal(date[2], 2) \o <<"-">>
            \o Decimal(date[3], 2) \o <<"@">>
            \o Decimal(tod \div SecondsPerHour, 2) \o <<":">>
            \o Decimal((tod % SecondsPerHour) \div SecondsPerMinute, 2)

Init ==
    /\ tasks = <<>>
    /\ nextTaskId = 1
    /\ ret = NoCall
    /\ tzdata = TRUE
    /\ now = Min(Instants)
    /\ phase = "down"
    /\ chat = NoUser
    /\ reminders = <<>>
    /\ nextId = 1
    /\ jobs = {}
    /\ calls = [r \in Rids |-> 0]
    /\ runners = {}
    /\ coros = <<>>
    /\ ev = NoEvent
    /\ delivered = {}
    /\ ncmd = 0
    /\ nstop = 0

\* Time passes: the clock moves to the next instant it visits.  The executor
\* thread and the loop are quicker than that: a submitted run and a queued
\* coroutine have had their turn by then (a delivery may take any time).
Tick ==
    /\ UNCHANGED <<tasks, nextTaskId, ret>>
    /\ \E t \in Instants : t > now
    /\ runners = {}
    /\ \A i \in 1..Len(coros) : coros[i].st # "queued"
    /\ now' = Min({t \in Instants : t > now})
    /\ ev' = NoEvent
    /\ UNCHANGED <<phase, tzdata, chat, reminders, nextId, jobs, calls, runners, coros>>
    /\ UNCHANGED <<delivered, ncmd, nstop>>

\* The process ends (exit, kill, power loss): the scheduler's jobs, the executor's
\* work and the loop's coroutines go with it; the database stays.
Stop ==
    /\ UNCHANGED <<tasks, nextTaskId, ret>>
    /\ phase # "down"
    /\ nstop < MaxStops
    /\ nstop' = nstop + 1
    /\ UNCHANGED <<delivered, ncmd>>
    /\ phase' = "down"
    /\ jobs' = {}
    /\ calls' = [r \in Rids |-> 0]
    /\ runners' = {}
    /\ coros' = <<>>
    /\ ev' = NoEvent
    /\ UNCHANGED <<now, tzdata, chat, reminders, nextId>>

\* schedule_all_active without the WHERE active=1 of its SELECT.
schedule_all_active_every(rs, chat_id) ==
    {NewJob(rs[r], chat_id, 1, FALSE, now) :
        r \in {x \in DOMAIN rs : rs[x].user_id = OwnerUserId /\ chat_id # NoUser}}

\* schedule_all_active giving up at the first owner without a chat id.
schedule_all_active_stops(rs, chat_id) ==
    IF \E x \in DOMAIN rs : rs[x].active = 1 /\ rs[x].user_id # OwnerUserId
    THEN {}
    ELSE {NewJob(rs[r], chat_id, 1, FALSE, now) :
             r \in {x \in DOMAIN rs : rs[x].active = 1 /\ chat_id # NoUser}}

\* get_user_chat_id(con, user_id): only the owner ever gets a users row (upsert_user
\* runs behind is_owner), chat_id being its telegram_chat_id; NoUser for None.
get_user_chat_id(chat_id, user_id) == IF user_id = OwnerUserId THEN chat_id ELSE NoUser

\* schedule_all_active: schedule_one for every row with active=1 whose owner has a
\* chat id, on the scheduler main() has built and not yet started.
schedule_all_active_jobs(rs, chat_id) ==
    {NewJob(rs[r], get_user_chat_id(chat_id, rs[r].user_id), 1, FALSE, now) :
        r \in {x \in DOMAIN rs : /\ rs[x].active = 1
                                 /\ get_user_chat_id(chat_id, rs[x].user_id) # NoUser
                                 /\ SchedulesJob(rs[x])}}
schedule_all_active_rows(rs, chat_id) ==
    [r \in DOMAIN rs |->
        IF /\ rs[r].active = 1
           /\ get_user_chat_id(chat_id, rs[r].user_id) # NoUser
           /\ SchedulesJob(rs[r])
        THEN [rs[r] EXCEPT !.last_run_at = NULL, !.next_run_at = NULL]
        ELSE rs[r]]

\* scheduler.start(): every pending job gets its first next_run_time.
scheduler_start(js, t) ==
    {[j EXCEPT !.next_run_time = get_next_fire_time(j.trigger, NULL, t)] : j \in js}

\* main(): a process starts, reconciles the scheduler with the store, and
\* run_polling records the loop (post_init) and starts the scheduler.
Boot ==
    /\ UNCHANGED <<tasks, nextTaskId, ret>>
    /\ phase = "down"
    /\ phase' = "running"
    /\ jobs' = scheduler_start(schedule_all_active_jobs(reminders, chat), now)
    /\ reminders' = schedule_all_active_rows(reminders, chat)
    /\ calls' = [r \in Rids |->
                    IF \E j \in schedule_all_active_jobs(reminders, chat) : j.rid = r
                    THEN 1 ELSE 0]
    /\ ev' = BootEvent
    /\ UNCHANGED <<now, tzdata, chat, nextId, runners, coros>>
    /\ UNCHANGED <<delivered, ncmd, nstop>>

\* The start of a process up to the point where the scheduler runs and post_init
\* has not recorded the loop in app.bot_data: the state _runner's fallback
\* (loop is None) is written for.
BootStarting ==
    /\ UNCHANGED <<tasks, nextTaskId, ret>>
    /\ phase = "down"
    /\ phase' = "starting"
    /\ jobs' = scheduler_start(schedule_all_active_jobs(reminders, chat), now)
    /\ reminders' = schedule_all_active_rows(reminders, chat)
    /\ calls' = [r \in Rids |->
                    IF \E j \in schedule_all_active_jobs(reminders, chat) : j.rid = r
                    THEN 1 ELSE 0]
    /\ ev' = BootEvent
    /\ UNCHANGED <<now, tzdata, chat, nextId, runners, coros>>
    /\ UNCHANGED <<delivered, ncmd, nstop>>

\* post_init: app.bot_data["loop"] = asyncio.get_running_loop().
post_init ==
    /\ UNCHANGED <<tasks, nextTaskId, ret>>
    /\ phase = "starting"
    /\ phase' = "running"
    /\ ev' = NoEvent
    /\ UNCHANGED <<now, tzdata, chat, reminders, nextId, jobs, calls, runners, coros>>
    /\ UNCHANGED <<delivered, ncmd, nstop>>

\* cmd_start from chat c: upsert_user stores the chat id.
CmdStart(c) ==
    /\ UNCHANGED <<tasks, nextTaskId, ret>>
    /\ phase = "running"
    /\ HandlerMayRun
    /\ ncmd < MaxCommands
    /\ ncmd' = ncmd + 1
    /\ UNCHANGED <<delivered, nstop>>
    /\ chat' = c
    /\ coros' = AfterHandler(coros)
    /\ ev' = NoEvent
    /\ UNCHANGED <<now, phase, tzdata, reminders, nextId, jobs, calls, runners>>

\* create_reminder, get_reminder and schedule_one as cmd_rem_add and cmd_rem_test
\* run them for a new row with the given schedule.
CreateAndSchedule(c, schedule) ==
    LET row == NewRow(nextId, OwnerUserId, schedule, BogotaZone)
    IN  /\ nextId <= MaxReminders
        /\ nextId' = nextId + 1
        /\ reminders' = schedule_one_rows(reminders @@ (nextId :> row), row)
        /\ jobs' = schedule_one_jobs(jobs, row, c, 1, TRUE, now)
        /\ calls' = [calls EXCEPT ![nextId] = IF SchedulesJob(row) THEN 1 ELSE 0]

\* cmd_rem_add creating the record before it looks at the schedule.
CmdRemAddCreatesFirst(c, s) ==
    /\ UNCHANGED <<tasks, nextTaskId, ret>>
    /\ phase = "running"
    /\ HandlerMayRun
    /\ ncmd < MaxCommands
    /\ ncmd' = ncmd + 1
    /\ UNCHANGED <<delivered, nstop>>
    /\ chat' = IF chat = NoUser THEN c ELSE chat
    /\ CreateAndSchedule(c, s)
    /\ ev' = [NoEvent EXCEPT !.type = IF parse_schedule(s).ok THEN "created" ELSE "invalid",
                             !.chat_id = c]
    /\ coros' = AfterHandler(coros)
    /\ UNCHANGED <<now, phase, tzdata, runners>>

\* cmd_rem_add from chat c with schedule text s: the reply is "Schedule invalido"
\* when parse_schedule raises, "Recordatorio creado" after create_reminder and
\* schedule_one.
CmdRemAdd(c, s) ==
    /\ UNCHANGED <<tasks, nextTaskId, ret>>
    /\ phase = "running"
    /\ HandlerMayRun
    /\ ncmd < MaxCommands
    /\ ncmd' = ncmd + 1
    /\ UNCHANGED <<delivered, nstop>>
    /\ chat' = IF chat = NoUser THEN c ELSE chat
    /\ IF parse_schedule(s).ok
       THEN /\ CreateAndSchedule(c, s)
            /\ ev' = [NoEvent EXCEPT !.type = "created", !.rid = nextId, !.chat_id = c]
       ELSE /\ UNCHANGED <<reminders, nextId, jobs, calls>>
            /\ ev' = [NoEvent EXCEPT !.type = "invalid", !.chat_id = c]
    /\ coros' = AfterHandler(coros)
    /\ UNCHANGED <<now, phase, tzdata, runners>>

\* _rem_toggle(active=1): cmd_rem_on from chat c for reminder id rid.
CmdRemOn(c, rid) ==
    /\ UNCHANGED <<tasks, nextTaskId, ret>>
    /\ phase = "running"
    /\ HandlerMayRun
    /\ ncmd < MaxCommands
    /\ ncmd' = ncmd + 1
    /\ UNCHANGED <<delivered, nstop>>
    /\ chat # NoUser
    /\ IF RowMatches(reminders, OwnerUserId, rid)
       THEN LET rs == update_reminder_active(reminders, OwnerUserId, rid, 1)
                row == rs[rid]
            IN  /\ reminders' = schedule_one_rows(rs, row)
                /\ jobs' = schedule_one_jobs(jobs, row, c, calls[rid] + 1, TRUE, now)
                /\ calls' = [calls EXCEPT ![rid] = IF SchedulesJob(row) THEN @ + 1 ELSE @]
       ELSE UNCHANGED <<reminders, jobs, calls>>
    /\ coros' = AfterHandler(coros)
    /\ ev' = NoEvent
    /\ UNCHANGED <<now, phase, tzdata, chat, nextId, runners>>

\* _rem_toggle(active=0): cmd_rem_off for reminder id rid.
CmdRemOff(rid) ==
    /\ UNCHANGED <<tasks, nextTaskId, ret>>
    /\ phase = "running"
    /\ HandlerMayRun
    /\ ncmd < MaxCommands
    /\ ncmd' = ncmd + 1
    /\ UNCHANGED <<delivered, nstop>>
    /\ chat # NoUser
    /\ IF RowMatches(reminders, OwnerUserId, rid)
       THEN /\ reminders' = update_reminder_active(reminders, OwnerUserId, rid, 0)
            /\ jobs' = unschedule_one(jobs, OwnerUserId, rid)
       ELSE UNCHANGED <<reminders, jobs>>
    /\ coros' = AfterRemoval(coros, rid)
    /\ ev' = NoEvent
    /\ UNCHANGED <<now, phase, tzdata, chat, nextId, calls, runners>>

\* cmd_rem_del for reminder id rid.
CmdRemDel(rid) ==
    /\ UNCHANGED <<tasks, nextTaskId, ret>>
    /\ phase = "running"
    /\ HandlerMayRun
    /\ ncmd < MaxCommands
    /\ ncmd' = ncmd + 1
    /\ UNCHANGED <<delivered, nstop>>
    /\ chat # NoUser
    /\ jobs' = unschedule_one(jobs, OwnerUserId, rid)
    /\ reminders' = delete_reminder(reminders, OwnerUserId, rid)
    /\ coros' = AfterRemoval(coros, rid)
    /\ ev' = NoEvent
    /\ UNCHANGED <<now, phase, tzdata, chat, nextId, calls, runners>>

\* cmd_rem_test from chat c.
CmdRemTest(c) ==
    /\ UNCHANGED <<tasks, nextTaskId, ret>>
    /\ phase = "running"
    /\ HandlerMayRun
    /\ ncmd < MaxCommands
    /\ ncmd' = ncmd + 1
    /\ UNCHANGED <<delivered, nstop>>
    /\ chat # NoUser
    /\ CreateAndSchedule(c, TestSchedule(now))
    /\ coros' = AfterHandler(coros)
    /\ ev' = NoEvent
    /\ UNCHANGED <<now, phase, tzdata, chat, runners>>

\* ------------------------------------------------------------- the scheduler

\* The scheduler processes the due job j: with coalesce=True it submits one run,
\* for the latest fire time that has passed, unless max_instances runs of the job
\* are still in the executor (the run is then skipped with a warning); the job then
\* gets its next fire time, or leaves the store when its trigger has none.  The
\* field coalesced of the run records that several fire times had passed, the
\* field late that the job was installed after its run date.
ProcessJob(j) ==
    /\ UNCHANGED <<tasks, nextTaskId, ret>>
    /\ phase \in {"starting", "running"}
    /\ j \in jobs
    /\ j.next_run_time # NULL
    /\ j.next_run_time <= now
    /\ Cardinality(runners) + Len(coros) < MaxCoros
    /\ LET run_time == LastRunTime(j.trigger, j.next_run_time, now)
           next == get_next_fire_time(j.trigger, run_time, now)
           instances == Cardinality({r \in runners : r.id = j.id})
       IN  /\ runners' = IF instances >= MaxInstances THEN runners
                         ELSE runners \cup {[id |-> j.id, rid |-> j.rid, chat_id |-> j.chat_id,
                                             n |-> j.n, run_time |-> run_time,
                                             coalesced |-> run_time > j.next_run_time,
                                             late |-> j.late]}
           /\ jobs' = IF next = NULL THEN jobs \ {j}
                      ELSE (jobs \ {j}) \cup {[j EXCEPT !.next_run_time = next]}
    /\ ev' = NoEvent
    /\ UNCHANGED <<now, phase, tzdata, chat, reminders, nextId, calls, coros>>
    /\ UNCHANGED <<delivered, ncmd, nstop>>

\* _runner's hand-over: asyncio.run_coroutine_threadsafe(_run_reminder_async(app,
\* con, rid, chat_id), loop) queues the coroutine on the loop.
run_coroutine_threadsafe(cs, r) ==
    Append(cs, [rid |-> r.rid, chat_id |-> r.chat_id, n |-> r.n, st |-> "queued",
                waited |-> FALSE, cancelled |-> FALSE, user_id |-> NoUser, schedule |-> <<>>,
                run_time |-> r.run_time])

\* The executor with no grace: any run that comes late is dropped as missed.
RunnerRunStrict(r) ==
    /\ UNCHANGED <<tasks, nextTaskId, ret>>
    /\ phase = "running"
    /\ r \in runners
    /\ runners' = runners \ {r}
    /\ coros' = IF now > r.run_time THEN coros ELSE run_coroutine_threadsafe(coros, r)
    /\ ev' = NoEvent
    /\ UNCHANGED <<now, phase, tzdata, chat, reminders, nextId, jobs, calls>>
    /\ UNCHANGED <<delivered, ncmd, nstop>>

\* A runner that waits for the deliveries under way before it hands over.
RunnerRunWaits(r) ==
    /\ UNCHANGED <<tasks, nextTaskId, ret>>
    /\ phase = "running"
    /\ r \in runners
    /\ \A i \in 1..Len(coros) : coros[i].st # "sending"
    /\ runners' = runners \ {r}
    /\ coros' = IF now - r.run_time > MisfireGraceSeconds THEN coros
                ELSE run_coroutine_threadsafe(coros, r)
    /\ ev' = NoEvent
    /\ UNCHANGED <<now, phase, tzdata, chat, reminders, nextId, jobs, calls>>
    /\ UNCHANGED <<delivered, ncmd, nstop>>

\* The executor runs the submitted run r: a run later than misfire_grace_time after
\* its fire time is dropped as missed; otherwise _runner is called, hands the
\* dispatcher coroutine to the loop and returns without waiting for it.
RunnerRun(r) ==
    /\ UNCHANGED <<tasks, nextTaskId, ret>>
    /\ phase = "running"
    /\ r \in runners
    /\ runners' = runners \ {r}
    /\ coros' = IF now - r.run_time > MisfireGraceSeconds THEN coros
                ELSE run_coroutine_threadsafe(coros, r)
    /\ ev' = NoEvent
    /\ UNCHANGED <<now, phase, tzdata, chat, reminders, nextId, jobs, calls>>
    /\ UNCHANGED <<delivered, ncmd, nstop>>

\* _runner's fallback: app.create_task(_run_reminder_async(...)) either creates
\* the task, or raises RuntimeError (no running event loop in the calling
\* thread), which _runner catches and logs before it returns.
create_task(cs, r, created) == IF created THEN run_coroutine_threadsafe(cs, r) ELSE cs

\* The executor runs the submitted run r while app.bot_data holds no loop: a run
\* that is not dropped as missed calls _runner, which takes its fallback.
RunnerFallback(r, created) ==
    /\ UNCHANGED <<tasks, nextTaskId, ret>>
    /\ phase = "starting"
    /\ r \in runners
    /\ runners' = runners \ {r}
    /\ coros' = IF now - r.run_time > MisfireGraceSeconds THEN coros
                ELSE create_task(coros, r, created)
    /\ ev' = NoEvent
    /\ UNCHANGED <<now, phase, tzdata, chat, reminders, nextId, jobs, calls>>
    /\ UNCHANGED <<delivered, ncmd, nstop>>

\* ------------------------------------------------------------ the dispatcher

\* The dispatcher without its active check.
dispatcher_returns_missing_only(rs, reminder_id) == reminder_id \notin DOMAIN rs

\* _run_reminder_async's first lines: get_reminder_by_id, then return without a
\* row or with active != 1.
dispatcher_returns(rs, reminder_id) ==
    reminder_id \notin DOMAIN rs \/ rs[reminder_id].active # 1

\* _run_reminder_async up to its await: the row is read by id; when the coroutine
\* does not return there, it calls send_message for the chat id it was built with
\* and waits for the delivery.
DispatchStart(i) ==
    /\ UNCHANGED <<tasks, nextTaskId, ret>>
    /\ phase = "running"
    /\ i \in 1..Len(coros)
    /\ coros[i].st = "queued"
    /\ LET c == coros[i]
       IN  IF dispatcher_returns(reminders, c.rid)
           THEN /\ coros' = Remove(coros, i)
                /\ ev' = Event("skip", c)
           ELSE /\ coros' = [coros EXCEPT ![i] =
                                [c EXCEPT !.st = "sending",
                                          !.user_id = reminders[c.rid].user_id,
                                          !.schedule = reminders[c.rid].schedule]]
                /\ ev' = Event("send", c)
    /\ UNCHANGED <<now, phase, tzdata, chat, reminders, nextId, jobs, calls, runners>>
    /\ UNCHANGED <<delivered, ncmd, nstop>>

\* A dispatcher that stores the fire time just handled as the next one.
dispatch_rows_same(rs, js, c, t) ==
    IF parse_schedule(c.schedule).kind = "ONCE"
    THEN update_reminder_run_times(
             update_reminder_active(rs, c.user_id, c.rid, 0), c.rid, t, NULL)
    ELSE update_reminder_run_times(rs, c.rid, t, c.run_time)

\* _run_reminder_async after a delivery that succeeded, its effect on the table:
\* a ONCE reminder is deactivated and gets last_run_at; a recurring one gets
\* last_run_at and the next_run_time of its job.
dispatch_rows(rs, js, c, t) ==
    IF parse_schedule(c.schedule).kind = "ONCE"
    THEN update_reminder_run_times(
             update_reminder_active(rs, c.user_id, c.rid, 0), c.rid, t, NULL)
    ELSE update_reminder_run_times(
             rs, c.rid, t, JobNextRunTime(js, job_id_for(c.user_id, c.rid)))

\* ... and its effect on the job store: a ONCE reminder is unscheduled.
dispatch_jobs(js, c) ==
    IF parse_schedule(c.schedule).kind = "ONCE"
    THEN unschedule_one(js, c.user_id, c.rid)
    ELSE js

\* A failure path that gives the job up.
done_callback_unschedule(js, c) == unschedule_one(js, c.user_id, c.rid)

\* A failure path that shuts the scheduler's store.
done_callback_clear(js, c) == {}

\* _done_callback for a coroutine that raised: the exception is logged, the job
\* store is left as it is.
done_callback_jobs(js, c) == js

\* The await of send_message returns (ok) or raises (~ok).  When it raises, the
\* exception leaves the coroutine, and _done_callback logs it.
DispatchFinish(i, ok) ==
    /\ UNCHANGED <<tasks, nextTaskId, ret>>
    /\ phase = "running"
    /\ i \in 1..Len(coros)
    /\ coros[i].st = "sending"
    /\ coros' = Remove(coros, i)
    /\ IF ok
       THEN /\ reminders' = dispatch_rows(reminders, jobs, coros[i], now)
            /\ jobs' = dispatch_jobs(jobs, coros[i])
            /\ delivered' = delivered \cup {coros[i].rid}
            /\ ev' = Event("done", coros[i])
       ELSE /\ reminders' = reminders
            /\ jobs' = done_callback_jobs(jobs, coros[i])
            /\ delivered' = delivered
            /\ ev' = Event("failed", coros[i])
    /\ UNCHANGED <<now, phase, tzdata, chat, nextId, calls, runners>>
    /\ UNCHANGED <<ncmd, nstop>>

Next ==
    \/ Tick
    \/ Stop
    \/ Boot
    \/ \E c \in Chats : CmdStart(c)
    \/ \E c \in Chats, s \in AddSchedules : CmdRemAdd(c, s)
    \/ \E c \in Chats, rid \in Rids : CmdRemOn(c, rid)
    \/ \E rid \in Rids : CmdRemOff(rid)
    \/ \E rid \in Rids : CmdRemDel(rid)
    \/ \E c \in Chats : CmdRemTest(c)
    \/ \E j \in jobs : ProcessJob(j)
    \/ \E r \in runners : RunnerRun(r)
    \/ \E i \in 1..MaxCoros : DispatchStart(i)
    \/ \E i \in 1..MaxCoros, ok \in BOOLEAN : DispatchFinish(i, ok)

Spec == Init /\ [][Next]_vars

\* ------------------------------------------------- starting over any store

\* users.id of a row the users table does not hold (any longer).
StrangerUserId == 2

\* The reminders tables a process may find in the database file when it starts
\* (init_db keeps what is there): up to MaxReminders rows with schedules that
\* parse, active or not, of the owner or of a user without a users row.
StoredRow == [user_id : {OwnerUserId, StrangerUserId}, schedule : {SchEveryday, SchOnce},
              active : {0, 1}]
StoredTables ==
    UNION {{[r \in 1..k |->
                [NewRow(r, f[r].user_id, f[r].schedule, BogotaZone) EXCEPT !.active = f[r].active]] :
              f \in [1..k -> StoredRow]} : k \in 0..MaxReminders}

\* A process about to start over a stored table, the owner's chat id stored or not.
InitStore ==
    /\ tasks = <<>>
    /\ nextTaskId = 1
    /\ ret = NoCall
    /\ tzdata = TRUE
    /\ now = Min(Instants)
    /\ phase = "down"
    /\ chat \in Chats \cup {NoUser}
    /\ reminders \in StoredTables
    /\ nextId = Len(reminders) + 1
    /\ jobs = {}
    /\ calls = [r \in Rids |-> 0]
    /\ runners = {}
    /\ coros = <<>>
    /\ ev = NoEvent
    /\ delivered = {}
    /\ ncmd = 0
    /\ nstop = 0

NextStore ==
    \/ Tick
    \/ Stop
    \/ Boot
    \/ \E c \in Chats : CmdStart(c)
    \/ \E j \in jobs : ProcessJob(j)
    \/ \E r \in runners : RunnerRun(r)
    \/ \E i \in 1..MaxCoros : DispatchStart(i)
    \/ \E i \in 1..MaxCoros, ok \in BOOLEAN : DispatchFinish(i, ok)

SpecStore == InitStore /\ [][NextStore]_vars

\* A process that starts over a stored table and whose scheduler runs before
\* post_init has recorded the loop.
NextStarting ==
    \/ Tick
    \/ BootStarting
    \/ post_init
    \/ \E j \in jobs : ProcessJob(j)
    \/ \E r \in runners, created \in BOOLEAN : RunnerFallback(r, created)
    \/ \E r \in runners : RunnerRun(r)
    \/ \E i \in 1..MaxCoros : DispatchStart(i)
    \/ \E i \in 1..MaxCoros, ok \in BOOLEAN : DispatchFinish(i, ok)

SpecStarting == InitStore /\ [][NextStarting]_vars

\* ------------------------------------------------- schedules, zones and fire times

\* The last day (counted from Monday 2026-01-19) up to which fire times are followed.
MaxFireDay == 8

\* The most fire times the process is kept from running over in one go.
MaxMissed == 2

\* The values of reminders.timezone: the zone create_reminder writes, an empty
\* text, a name ZoneInfo does not know, and no value.
ZoneNames == {BogotaZone, "", "Mars/Phobos", MissingZone}

\* Valid schedule texts with the keyword in upper, lower and mixed case, each with
\* the days (0 = Monday) and the time of day its form stands for; for ONCE, the
\* day number of its date.
ScheduleCases ==
    {[text |-> <<"w","e","e","k","d","a","y","@","0","8",":","0","0">>,
      days |-> {0, 1, 2, 3, 4}, tod |-> 8 * SecondsPerHour, once |-> NULL],
     [text |-> <<"W","e","e","k","E","n","d","@","0","8",":","0","0">>,
      days |-> {5, 6}, tod |-> 8 * SecondsPerHour, once |-> NULL],
     [text |-> <<"E","V","E","R","Y","D","A","Y","@","0","8",":","0","0">>,
      days |-> 0..6, tod |-> 8 * SecondsPerHour, once |-> NULL],
     [text |-> <<"D","a","i","l","y","@","2","3",":","5","9">>,
      days |-> 0..6, tod |-> 23 * SecondsPerHour + 59 * SecondsPerMinute, once |-> NULL],
     [text |-> <<"d","a","y","s","@","t","u","e",",","F","R","I","@","2","0",":","0","0">>,
      days |-> {1, 4}, tod |-> 20 * SecondsPerHour, once |-> NULL],
     [text |-> <<"D","A","Y","S","@","s","u","n","@","0","0",":","0","5">>,
      days |-> {6}, tod |-> 5 * SecondsPerMinute, once |-> NULL],
     [text |-> <<"o","n","c","e","@","2","0","2","6","-","0","1","-","2","0","@","0","9",":","0","0">>,
      days |-> {}, tod |-> 9 * SecondsPerHour, once |-> 1]}

\* A running process with one stored reminder, switched off, whose schedule and
\* zone are drawn; the zone database is there or not.
InitTrigger ==
    /\ tasks = <<>>
    /\ nextTaskId = 1
    /\ ret = NoCall
    /\ tzdata \in BOOLEAN
    /\ now = 0
    /\ phase = "running"
    /\ chat \in Chats
    /\ \E c \in ScheduleCases, z \in ZoneNames :
           reminders = <<[NewRow(1, OwnerUserId, c.text, z) EXCEPT !.active = 0]>>
    /\ nextId = 2
    /\ jobs = {}
    /\ calls = [r \in Rids |-> 0]
    /\ runners = {}
    /\ coros = <<>>
    /\ ev = NoEvent
    /\ delivered = {}
    /\ ncmd = 0
    /\ nstop = 0

\* Time passes until the next fire time of a stored job; the deliveries of the
\* earlier firings have ended by then.
TickToFire ==
    /\ UNCHANGED <<tasks, nextTaskId, ret>>
    /\ runners = {}
    /\ coros = <<>>
    /\ \E j \in jobs :
          /\ j.next_run_time # NULL
          /\ j.next_run_time > now
          /\ j.next_run_time <= MaxFireDay * SecondsPerDay
          /\ \A k \in jobs : k.next_run_time # NULL => k.next_run_time >= j.next_run_time
          /\ now' = j.next_run_time
    /\ ev' = NoEvent
    /\ UNCHANGED <<phase, tzdata, chat, reminders, nextId, jobs, calls, runners, coros>>
    /\ UNCHANGED <<delivered, ncmd, nstop>>

NextTrigger ==
    \/ TickToFire
    \/ \E c \in Chats, rid \in Rids : CmdRemOn(c, rid)
    \/ \E j \in jobs : ProcessJob(j)
    \/ \E r \in runners : RunnerRun(r)
    \/ \E i \in 1..MaxCoros : DispatchStart(i)
    \/ \E i \in 1..MaxCoros, ok \in BOOLEAN : DispatchFinish(i, ok)

SpecTrigger == InitTrigger /\ [][NextTrigger]_vars

\* ------------------------------------------------- the process kept from running

\* The n-th fire time of a recurring trigger, counted from its fire time t.
RECURSIVE NthFire(_, _, _)
NthFire(trigger, t, n) ==
    IF n <= 1 THEN t ELSE NthFire(trigger, CronNext(trigger, t + 1), n - 1)

\* The process is kept from running (the device sleeps, the loop is blocked) over
\* the coming n fire times of a stored recurring job, and resumes o seconds after
\* the last of them.
Sleep ==
    /\ UNCHANGED <<tasks, nextTaskId, ret>>
    /\ runners = {}
    /\ coros = <<>>
    /\ \E j \in jobs, n \in 1..MaxMissed, o \in {o \in Offsets : o > 0} :
          /\ j.trigger.type = "cron"
          /\ j.next_run_time # NULL
          /\ j.next_run_time >= now
          /\ NthFire(j.trigger, j.next_run_time, n) <= MaxFireDay * SecondsPerDay
          /\ now' = NthFire(j.trigger, j.next_run_time, n) + o
    /\ ev' = NoEvent
    /\ UNCHANGED <<phase, tzdata, chat, reminders, nextId, jobs, calls, runners, coros>>
    /\ UNCHANGED <<delivered, ncmd, nstop>>

NextMisfire ==
    \/ Sleep
    \/ NextTrigger

SpecMisfire == InitTrigger /\ [][NextMisfire]_vars

\* ------------------------------------------------- the owner writing from two chats

\* The chats of an owner who also writes from a second chat (a group, say).
OwnerChats == Chats \cup {Max(Chats) + 1}

NextChats ==
    \/ TickToFire
    \/ \E c \in OwnerChats : CmdStart(c)
    \/ \E c \in OwnerChats, rid \in Rids : CmdRemOn(c, rid)
    \/ \E j \in jobs : ProcessJob(j)
    \/ \E r \in runners : RunnerRun(r)
    \/ \E i \in 1..MaxCoros : DispatchStart(i)
    \/ \E i \in 1..MaxCoros, ok \in BOOLEAN : DispatchFinish(i, ok)

SpecChats == InitTrigger /\ [][NextChats]_vars

\* ------------------------------------------------- rem_test with and without tzdata

NextTest ==
    \/ TickToFire
    \/ \E c \in Chats : CmdRemTest(c)
    \/ \E j \in jobs : ProcessJob(j)
    \/ \E r \in runners : RunnerRun(r)
    \/ \E i \in 1..MaxCoros : DispatchStart(i)
    \/ \E i \in 1..MaxCoros, ok \in BOOLEAN : DispatchFinish(i, ok)

SpecTest == InitTrigger /\ [][NextTest]_vars

\* ------------------------------------------------- job keys of many users and reminders

\* The (user_id, id) pairs of the stored reminders: ids of one and of two digits,
\* among them pairs whose digits agree when read one after the other.
KeyRows == {<<1, 12>>, <<11, 2>>, <<1, 21>>, <<12, 1>>, <<2, 11>>}

\* A running process over a table with these rows, no job installed yet.
InitKeys ==
    /\ tasks = <<>>
    /\ nextTaskId = 1
    /\ ret = NoCall
    /\ tzdata = TRUE
    /\ now = Min(Instants)
    /\ phase = "running"
    /\ chat = Min(Chats)
    /\ reminders = [r \in {p[2] : p \in KeyRows} |->
                       NewRow(r, (CHOOSE p \in KeyRows : p[2] = r)[1], SchEveryday, BogotaZone)]
    /\ nextId = Max(DOMAIN reminders) + 1
    /\ jobs = {}
    /\ calls = [r \in Rids |-> 0]
    /\ runners = {}
    /\ coros = <<>>
    /\ ev = NoEvent
    /\ delivered = {}
    /\ ncmd = 0
    /\ nstop = 0

\* schedule_one for the stored reminder rid, its effect on the job store.
KeyInstall(rid) ==
    /\ UNCHANGED <<tasks, nextTaskId, ret>>
    /\ rid \in DOMAIN reminders
    /\ jobs' = schedule_one_jobs(jobs, reminders[rid], chat, 1, TRUE, now)
    /\ ev' = [NoEvent EXCEPT !.type = "install", !.rid = rid]
    /\ UNCHANGED <<now, phase, tzdata, chat, reminders, nextId, calls, runners, coros>>
    /\ UNCHANGED <<delivered, ncmd, nstop>>

\* unschedule_one for the stored reminder rid.
KeyRemove(rid) ==
    /\ UNCHANGED <<tasks, nextTaskId, ret>>
    /\ rid \in DOMAIN reminders
    /\ jobs' = unschedule_one(jobs, reminders[rid].user_id, rid)
    /\ ev' = [NoEvent EXCEPT !.type = "remove", !.rid = rid]
    /\ UNCHANGED <<now, phase, tzdata, chat, reminders, nextId, calls, runners, coros>>
    /\ UNCHANGED <<delivered, ncmd, nstop>>

NextKeys ==
    \/ \E rid \in DOMAIN reminders : KeyInstall(rid)
    \/ \E rid \in DOMAIN reminders : KeyRemove(rid)

SpecKeys == InitKeys /\ [][NextKeys]_vars

\* ------------------------------------------------- db.py: the tasks table

\* The most tasks ever added.
MaxTasks == 2

\* tasks.target_date and tasks.text as the callers pass them.
TaskDates == {"2026-01-19", "2026-01-20"}
TaskTexts == {"leer", "correr"}

\* A running process with an empty tasks table, late on the last day but one.
InitTasks ==
    /\ tasks = <<>>
    /\ nextTaskId = 1
    /\ ret = NoCall
    /\ tzdata = TRUE
    /\ now = Max(Instants \ {Max(Instants)})
    /\ phase = "running"
    /\ chat = Min(Chats)
    /\ reminders = <<>>
    /\ nextId = 1
    /\ jobs = {}
    /\ calls = [r \in Rids |-> 0]
    /\ runners = {}
    /\ coros = <<>>
    /\ ev = NoEvent
    /\ delivered = {}
    /\ ncmd = 0
    /\ nstop = 0

\* add_task: INSERT with status 'pending'; returns lastrowid.  The row leaves out
\* created_at, written here only, and updated_at, never read; count stands for
\* the rows a call wrote, which its return value is computed from.
add_task(user_id, target_date, text) ==
    /\ nextTaskId <= MaxTasks
    /\ tasks' = tasks @@ (nextTaskId :>
                    [id |-> nextTaskId, user_id |-> user_id, target_date |-> target_date,
                     text |-> text, status |-> "pending", done_at |-> NULL,
                     missed_at |-> NULL])
    /\ nextTaskId' = nextTaskId + 1
    /\ ret' = [op |-> "add_task", count |-> 1]
    /\ UNCHANGED <<now, phase, tzdata, chat, reminders, nextId, jobs, calls, runners, coros>>
    /\ UNCHANGED <<ev, delivered, ncmd, nstop>>

\* The UPDATE of mark_task_done_by_id without its test of the status.
DoneRowsAgain(ts, user_id, task_id, t) ==
    [i \in DOMAIN ts |->
        IF i = task_id /\ ts[i].user_id = user_id
        THEN [ts[i] EXCEPT !.status = "done", !.done_at = t]
        ELSE ts[i]]

\* UPDATE tasks SET status='done', done_at=?, updated_at=? WHERE user_id=? AND id=?
\* AND status!='done', at time t.
DoneRows(ts, user_id, task_id, t) ==
    [i \in DOMAIN ts |->
        IF i = task_id /\ ts[i].user_id = user_id /\ ts[i].status # "done"
        THEN [ts[i] EXCEPT !.status = "done", !.done_at = t]
        ELSE ts[i]]

\* mark_task_done_by_id; returns rowcount > 0.
mark_task_done_by_id(user_id, task_id) ==
    /\ tasks' = DoneRows(tasks, user_id, task_id, now)
    /\ ret' = [op |-> "mark_task_done_by_id",
               count |-> Cardinality({i \in DOMAIN tasks :
                             i = task_id /\ tasks[i].user_id = user_id /\ tasks[i].status # "done"})]
    /\ UNCHANGED <<now, phase, tzdata, chat, reminders, nextId, jobs, calls, runners, coros>>
    /\ UNCHANGED <<ev, delivered, ncmd, nstop, nextTaskId>>

\* mark_task_done_by_text: the pending tasks of the user with that text (and that
\* date, when one is given); exactly one is marked done by id, none or several
\* are left as they are.  count is the number of tasks found.
mark_task_done_by_text(user_id, text, target_date) ==
    LET ids == {i \in DOMAIN tasks :
                   /\ tasks[i].user_id = user_id
                   /\ tasks[i].status = "pending"
                   /\ tasks[i].text = text
                   /\ (target_date = "" \/ tasks[i].target_date = target_date)}
    IN  /\ tasks' = IF Cardinality(ids) = 1
                    THEN DoneRows(tasks, user_id, CHOOSE i \in ids : TRUE, now)
                    ELSE tasks
        /\ ret' = [op |-> "mark_task_done_by_text", count |-> Cardinality(ids)]
        /\ UNCHANGED <<now, phase, tzdata, chat, reminders, nextId, jobs, calls, runners, coros>>
        /\ UNCHANGED <<ev, delivered, ncmd, nstop, nextTaskId>>

\* update_task_text: UPDATE tasks SET text=?, updated_at=? WHERE user_id=? AND id=?
update_task_text(user_id, task_id, new_text) ==
    /\ tasks' = [i \in DOMAIN tasks |->
                    IF i = task_id /\ tasks[i].user_id = user_id
                    THEN [tasks[i] EXCEPT !.text = new_text]
                    ELSE tasks[i]]
    /\ ret' = [op |-> "update_task_text", count |-> Cardinality({i \in DOMAIN tasks :
                                           i = task_id /\ tasks[i].user_id = user_id})]
    /\ UNCHANGED <<now, phase, tzdata, chat, reminders, nextId, jobs, calls, runners, coros>>
    /\ UNCHANGED <<ev, delivered, ncmd, nstop, nextTaskId>>

\* update_task_date: UPDATE tasks SET target_date=?, updated_at=? WHERE user_id=? AND id=?
update_task_date(user_id, task_id, new_date) ==
    /\ tasks' = [i \in DOMAIN tasks |->
                    IF i = task_id /\ tasks[i].user_id = user_id
                    THEN [tasks[i] EXCEPT !.target_date = new_date]
                    ELSE tasks[i]]
    /\ ret' = [op |-> "update_task_date", count |-> Cardinality({i \in DOMAIN tasks :
                                           i = task_id /\ tasks[i].user_id = user_id})]
    /\ UNCHANGED <<now, phase, tzdata, chat, reminders, nextId, jobs, calls, runners, coros>>
    /\ UNCHANGED <<ev, delivered, ncmd, nstop, nextTaskId>>

\* update_task_date_text: UPDATE tasks SET target_date=?, text=?, updated_at=?
\* WHERE user_id=? AND id=?
update_task_date_text(user_id, task_id, new_date, new_text) ==
    /\ tasks' = [i \in DOMAIN tasks |->
                    IF i = task_id /\ tasks[i].user_id = user_id
                    THEN [tasks[i] EXCEPT !.target_date = new_date, !.text = new_text]
                    ELSE tasks[i]]
    /\ ret' = [op |-> "update_task_date_text", count |-> Cardinality({i \in DOMAIN tasks :
                                           i = task_id /\ tasks[i].user_id = user_id})]
    /\ UNCHANGED <<now, phase, tzdata, chat, reminders, nextId, jobs, calls, runners, coros>>
    /\ UNCHANGED <<ev, delivered, ncmd, nstop, nextTaskId>>

\* delete_task_by_id: DELETE FROM tasks WHERE user_id=? AND id=?
delete_task_by_id(user_id, task_id) ==
    /\ tasks' = [i \in {x \in DOMAIN tasks : ~(x = task_id /\ tasks[x].user_id = user_id)} |->
                    tasks[i]]
    /\ ret' = [op |-> "delete_task_by_id", count |-> Cardinality({i \in DOMAIN tasks :
                                           i = task_id /\ tasks[i].user_id = user_id})]
    /\ UNCHANGED <<now, phase, tzdata, chat, reminders, nextId, jobs, calls, runners, coros>>
    /\ UNCHANGED <<ev, delivered, ncmd, nstop, nextTaskId>>

\* mark_tasks_missed_for_date with no test of the status.
mark_tasks_missed_any_status(user_id, target_date) ==
    /\ tasks' = [i \in DOMAIN tasks |->
                    IF tasks[i].user_id = user_id /\ tasks[i].target_date = target_date
                    THEN [tasks[i] EXCEPT !.status = "missed", !.missed_at = now]
                    ELSE tasks[i]]
    /\ ret' = [op |-> "mark_tasks_missed_for_date", count |-> Cardinality({i \in DOMAIN tasks :
                                           /\ tasks[i].user_id = user_id
                                           /\ tasks[i].target_date = target_date})]
    /\ UNCHANGED <<now, phase, tzdata, chat, reminders, nextId, jobs, calls, runners, coros>>
    /\ UNCHANGED <<ev, delivered, ncmd, nstop, nextTaskId>>

\* mark_tasks_missed_for_date (the close of day, job_close_day): UPDATE tasks SET
\* status='missed', missed_at=?, updated_at=? WHERE user_id=? AND target_date=?
\* AND status='pending'; returns rowcount.
mark_tasks_missed_for_date(user_id, target_date) ==
    /\ tasks' = [i \in DOMAIN tasks |->
                    IF /\ tasks[i].user_id = user_id
                       /\ tasks[i].target_date = target_date
                       /\ tasks[i].status = "pending"
                    THEN [tasks[i] EXCEPT !.status = "missed", !.missed_at = now]
                    ELSE tasks[i]]
    /\ ret' = [op |-> "mark_tasks_missed_for_date", count |-> Cardinality({i \in DOMAIN tasks :
                                           /\ tasks[i].user_id = user_id
                                           /\ tasks[i].target_date = target_date
                                           /\ tasks[i].status = "pending"})]
    /\ UNCHANGED <<now, phase, tzdata, chat, reminders, nextId, jobs, calls, runners, coros>>
    /\ UNCHANGED <<ev, delivered, ncmd, nstop, nextTaskId>>

NextTasks ==
    \/ Tick
    \/ \E u \in {OwnerUserId, StrangerUserId}, d \in TaskDates, x \in TaskTexts : add_task(u, d, x)
    \/ \E u \in {OwnerUserId, StrangerUserId}, i \in 1..MaxTasks : mark_task_done_by_id(u, i)
    \/ \E u \in {OwnerUserId, StrangerUserId}, x \in TaskTexts, d \in TaskDates \cup {""} :
           mark_task_done_by_text(u, x, d)
    \/ \E u \in {OwnerUserId, StrangerUserId}, i \in 1..MaxTasks, x \in TaskTexts :
           update_task_text(u, i, x)
    \/ \E u \in {OwnerUserId, StrangerUserId}, i \in 1..MaxTasks, d \in TaskDates :
           update_task_date(u, i, d)
    \/ \E u \in {OwnerUserId, StrangerUserId}, i \in 1..MaxTasks, d \in TaskDates, x \in TaskTexts :
           update_task_date_text(u, i, d, x)
    \/ \E u \in {OwnerUserId, StrangerUserId}, i \in 1..MaxTasks : delete_task_by_id(u, i)
    \/ \E u \in {OwnerUserId, StrangerUserId}, d \in TaskDates : mark_tasks_missed_for_date(u, d)

SpecTasks == InitTasks /\ [][NextTasks]_vars

\* ------------------------------------------------- schedule texts, well and ill formed

\* Keywords as the owner may write them, with the kind each stands for
\* ("unknown": not a keyword of the grammar).
KeywordTexts ==
    {[text |-> <<"W","E","E","K","D","A","Y">>, kind |-> "WEEKDAY"],
     [text |-> <<"w","e","e","k","d","a","y">>, kind |-> "WEEKDAY"],
     [text |-> <<"W","e","e","k","E","n","d">>, kind |-> "WEEKEND"],
     [text |-> <<"E","V","E","R","Y","D","A","Y">>, kind |-> "EVERYDAY"],
     [text |-> <<"d","a","i","l","y">>, kind |-> "EVERYDAY"],
     [text |-> <<"M","O","N","T","H","L","Y">>, kind |-> "unknown"],
     [text |-> <<"W","E","E","K">>, kind |-> "unknown"]}

\* Time fields: zero-padded HH:MM in range ("padded"), a one-digit hour, leading
\* whitespace, an hour above 23 or a minute above 59 ("range"), no colon ("shape").
TimeTexts ==
    {[text |-> <<"0","8",":","0","0">>, class |-> "padded"],
     [text |-> <<"2","3",":","5","9">>, class |-> "padded"],
     [text |-> <<"0","0",":","0","0">>, class |-> "padded"],
     [text |-> <<"8",":","0","0">>, class |-> "onedigit"],
     [text |-> <<" ","0","8",":","0","0">>, class |-> "spaced"],
     [text |-> <<"2","4",":","0","0">>, class |-> "range"],
     [text |-> <<"0","8",":","6","0">>, class |-> "range"],
     [text |-> <<"0","8","0","0">>, class |-> "shape"]}

\* Day lists of DAYS with the set of days (0 = Monday) a well-formed one names.
DayListTexts ==
    {[text |-> <<"t","u","e",",","f","r","i">>, class |-> "ok", days |-> {1, 4}],
     [text |-> <<"f","r","i",",","t","u","e">>, class |-> "ok", days |-> {1, 4}],
     [text |-> <<"T","U","E",",","F","r","i">>, class |-> "ok", days |-> {1, 4}],
     [text |-> <<"t","u","e",",","t","u","e",",","f","r","i">>, class |-> "ok", days |-> {1, 4}],
     [text |-> <<"s","u","n">>, class |-> "ok", days |-> {6}],
     [text |-> <<"m","o","n",",","x","y","z">>, class |-> "badtoken", days |-> {}],
     [text |-> <<"l","u","n","e","s">>, class |-> "badtoken", days |-> {}],
     [text |-> <<>>, class |-> "empty", days |-> {}],
     [text |-> <<",">>, class |-> "empty", days |-> {}]}

\* Date fields of ONCE: dates of the calendar, dates off it, and another shape.
DateTexts ==
    {[text |-> <<"2","0","2","6","-","0","1","-","2","0">>, class |-> "ok"],
     [text |-> <<"2","0","2","4","-","0","2","-","2","9">>, class |-> "ok"],
     [text |-> <<"2","0","2","6","-","1","3","-","0","1">>, class |-> "notcalendar"],
     [text |-> <<"2","0","2","6","-","0","2","-","3","0">>, class |-> "notcalendar"],
     [text |-> <<"2","0","2","5","-","0","2","-","2","9">>, class |-> "notcalendar"],
     [text |-> <<"2","0","2","6","-","1","-","2","0">>, class |-> "shape"]}

\* One schedule text with what was put into it: the kind of its keyword, whether
\* it has the number of fields its form takes, and the classes of its fields
\* ("none" for a field the text does not have).
ScheduleText(text, kind, fields, time, days, dayset, date) ==
    [text |-> text, kind |-> kind, fields |-> fields, time |-> time, days |-> days,
     dayset |-> dayset, date |-> date]

KwDaysTexts == {<<"D","A","Y","S">>, <<"d","a","y","s">>}
KwOnceTexts == {<<"O","N","C","E">>, <<"O","n","c","e">>}

\* The schedule texts parse_schedule is given: KIND@time, DAYS@list@time,
\* ONCE@date@time, and texts with a field missing or a field too many.
ParseCases ==
    {ScheduleText(k.text \o <<"@">> \o t.text, k.kind, TRUE, t.class, "none", {}, "none") :
        k \in KeywordTexts, t \in TimeTexts}
    \cup {ScheduleText(k \o <<"@">> \o d.text \o <<"@">> \o t.text, "DAYS", TRUE, t.class,
                       d.class, d.days, "none") :
             k \in KwDaysTexts, d \in DayListTexts, t \in TimeTexts}
    \cup {ScheduleText(k \o <<"@">> \o d.text \o <<"@">> \o t.text, "ONCE", TRUE, t.class,
                       "none", {}, d.class) :
             k \in KwOnceTexts, d \in DateTexts, t \in TimeTexts}
    \cup {ScheduleText(k \o <<"@">> \o t.text, "DAYS", FALSE, t.class, "none", {}, "none") :
             k \in KwDaysTexts, t \in TimeTexts}
    \cup {ScheduleText(k \o <<"@">> \o d.text, "ONCE", FALSE, "none", "none", {}, d.class) :
             k \in KwOnceTexts, d \in DateTexts}
    \cup {ScheduleText(k.text, k.kind, FALSE, "none", "none", {}, "none") : k \in KeywordTexts}
    \cup {ScheduleText(k.text \o <<"@">> \o t.text \o <<"@">> \o t.text, k.kind, FALSE,
                       t.class, "none", {}, "none") :
             k \in KeywordTexts, t \in TimeTexts}

\* A running process with one stored reminder, switched off, whose schedule text
\* is drawn from ParseCases.
InitParse ==
    /\ tasks = <<>>
    /\ nextTaskId = 1
    /\ ret = NoCall
    /\ tzdata = TRUE
    /\ now = 0
    /\ phase = "running"
    /\ chat \in Chats
    /\ \E c \in ParseCases :
           reminders = <<[NewRow(1, OwnerUserId, c.text, BogotaZone) EXCEPT !.active = 0]>>
    /\ nextId = 2
    /\ jobs = {}
    /\ calls = [r \in Rids |-> 0]
    /\ runners = {}
    /\ coros = <<>>
    /\ ev = NoEvent
    /\ delivered = {}
    /\ ncmd = 0
    /\ nstop = 0

\* rem_on and rem_off of the stored reminder: schedule_one parses the text.
NextParse ==
    \/ \E c \in Chats, rid \in Rids : CmdRemOn(c, rid)
    \/ \E rid \in Rids : CmdRemOff(rid)

SpecParse == InitParse /\ [][NextParse]_vars

TypeOK ==
    /\ now \in Instants
    /\ phase \in {"down", "starting", "running"}
    /\ chat \in Chats \cup {NoUser}
    /\ nextId \in 1..(MaxReminders + 1)
    /\ DOMAIN reminders \subseteq Rids
    /\ Len(coros) <= MaxCoros

\* ------------------------------------------------------------------ claims

IsOnce(rid) == parse_schedule(reminders[rid].schedule).kind = "ONCE"
JobsOf(js, rid) == {j \in js : j.id = job_id_for(OwnerUserId, rid)}
\* The instant a 09:00 schedule fires on day d.
FireTime(d) == InstantOf(d, FireTod, get_tz(BogotaZone))

\* C1: the store holds at most one job per key, that job is the one the latest
\* schedule_one call for the key built, and every run the scheduler submits is a
\* run of that latest job: a replaced trigger never fires.
C1_OneJobPerKey ==
    /\ [](/\ \A j1, j2 \in jobs : j1.id = j2.id => j1 = j2
          /\ \A j \in jobs : j.n = calls[j.rid])
    /\ [][\A r \in runners' \ runners : r.n = calls[r.rid]]_vars

\* A key scheduled again (rem_add, then rem_on) whose replacing job has fired.
C1_Witness ==
    \E r \in runners : r.n >= 2 /\ Cardinality(JobsOf(jobs, r.rid)) = 1

\* C2: no two firings of one job are in progress together, a firing being in
\* progress from the submission of its run until its dispatcher has finished.
C2_OneFiringPerJob ==
    /\ \A i, k \in 1..Len(coros) :
          i # k => ~(coros[i].rid = coros[k].rid /\ coros[i].n = coros[k].n)
    /\ \A r \in runners : \A i \in 1..Len(coros) :
          ~(coros[i].rid = r.rid /\ coros[i].n = r.n)

\* C3: while a reminder's row has active=0, no step calls send_message for it,
\* whatever the clock shows.
C3_NoSendWhileOff ==
    [][\A rid \in DOMAIN reminders :
          reminders[rid].active = 0 => ~(ev'.type = "send" /\ ev'.rid = rid)]_vars

\* A recurring reminder switched off before any delivery, its fire time reached,
\* nothing of it in flight.
C3_Witness ==
    \E rid \in DOMAIN reminders :
        /\ reminders[rid].active = 0
        /\ ~IsOnce(rid)
        /\ rid \notin delivered
        /\ now >= FireTime(0)
        /\ coros = <<>>
        /\ runners = {}
        /\ phase = "running"

\* C4: a coroutine whose reminder was removed (rem_off, rem_del) while it was
\* queued never gets to send_message.
C4_RemovedBeforeStartSendsNothing ==
    \A i \in 1..Len(coros) : coros[i].st = "sending" => ~coros[i].cancelled

\* A coroutine that was queued when its reminder was removed has run and returned.
C4_Witness == ev.type = "skip" /\ ev.cancelled

\* C5: no send_message call is made for a ONCE reminder a delivery has already
\* succeeded for.
C5_OnceNeverAgain ==
    ~(ev.type = "send" /\ ev.rid \in delivered /\ IsOnce(ev.rid))

\* C6: when the dispatcher of a ONCE reminder has finished, by a delivery or by
\* an exception, the row (if still stored) has active=0.
C6_OnceInactiveAfterFiring ==
    (ev.type \in {"done", "failed"} /\ ev.rid \in DOMAIN reminders /\ IsOnce(ev.rid))
        => reminders[ev.rid].active = 0

\* C7: when a dispatcher that found its reminder active has finished, by a
\* delivery or by an exception, the row (if still stored) has last_run_at = now.
C7_LastRunAtAlways ==
    (ev.type \in {"done", "failed"} /\ ev.rid \in DOMAIN reminders)
        => reminders[ev.rid].last_run_at = now

\* C8: the step in which send_message raises leaves the process running and
\* changes neither the reminder's row nor the jobs stored under its key: a
\* recurring reminder stays active, its job keeps its trigger and next fire time.
C8_FailureKeepsJob ==
    [][ev'.type = "failed" =>
          /\ phase' = "running"
          /\ JobsOf(jobs', ev'.rid) = JobsOf(jobs, ev'.rid)
          /\ (ev'.rid \in DOMAIN reminders =>
                 /\ ev'.rid \in DOMAIN reminders'
                 /\ reminders'[ev'.rid] = reminders[ev'.rid])]_vars

\* A recurring reminder whose delivery has just failed: active, its job stored
\* with a fire time still to come.
C8_Witness ==
    /\ ev.type = "failed"
    /\ ev.rid \in DOMAIN reminders
    /\ ~IsOnce(ev.rid)
    /\ reminders[ev.rid].active = 1
    /\ \E j \in JobsOf(jobs, ev.rid) : j.trigger.type = "cron" /\ j.next_run_time > now

\* C9: the step in which the firing of reminder A fails changes no row and no
\* job of any other reminder B.
C9_FailureTouchesNoOther ==
    [][ev'.type = "failed" =>
          \A b \in Rids \ {ev'.rid} :
              /\ JobsOf(jobs', b) = JobsOf(jobs, b)
              /\ (b \in DOMAIN reminders) = (b \in DOMAIN reminders')
              /\ (b \in DOMAIN reminders => reminders'[b] = reminders[b])]_vars

\* The firing of one reminder has failed while another is active with its job.
C9_Witness ==
    /\ ev.type = "failed"
    /\ \E b \in DOMAIN reminders \ {ev.rid} :
          /\ reminders[b].active = 1
          /\ JobsOf(jobs, b) # {}

\* C10: a stored reminder with active=0 has no job in the scheduler.
C10_InactiveHasNoJob ==
    \A rid \in DOMAIN reminders : reminders[rid].active = 0 => JobsOf(jobs, rid) = {}

\* A reminder that had a job and is now inactive, the process running.
C10_Witness ==
    \E rid \in DOMAIN reminders :
        reminders[rid].active = 0 /\ calls[rid] >= 1 /\ phase = "running"

\* C11: a dispatcher that finds its reminder missing or with active=0 returns
\* at once: the step calls send_message for no one and changes neither the
\* reminders table nor the job store; send_message is only ever called for a
\* reminder that is stored with active=1.
C11_InactiveDispatchIsNoOp ==
    [][/\ \A i \in 1..Len(coros) :
             (/\ coros[i].st = "queued"
              /\ coros' = Remove(coros, i)
              /\ phase' = "running"
              /\ (coros[i].rid \notin DOMAIN reminders \/ reminders[coros[i].rid].active = 0))
             => (ev'.type = "skip" /\ reminders' = reminders /\ jobs' = jobs)
       /\ ev'.type = "send" =>
             /\ ev'.rid \in DOMAIN reminders
             /\ reminders[ev'.rid].active = 1
       /\ ev'.type = "skip" => (reminders' = reminders /\ jobs' = jobs)]_vars

\* A dispatcher has just returned on a deleted or switched-off reminder while
\* another reminder is stored and scheduled.
C11_Witness ==
    /\ ev.type = "skip"
    /\ (ev.rid \notin DOMAIN reminders \/ reminders[ev.rid].active = 0)
    /\ jobs # {}

\* C12: when a process has started and reconciled the scheduler with the store,
\* every stored reminder with active=1 whose owner has a chat id has exactly one
\* job under its key, and no reminder with active=0 has a job.
C12_BootInstallsActive ==
    ev.type = "boot" =>
        \A rid \in DOMAIN reminders :
            /\ (reminders[rid].active = 1 /\ chat # NoUser)
                   => Cardinality(JobsOf(jobs, rid)) = 1
            /\ reminders[rid].active = 0 => JobsOf(jobs, rid) = {}

\* A process has just started over a store with an active and an inactive reminder.
C12_Witness ==
    /\ ev.type = "boot"
    /\ \E a, b \in DOMAIN reminders :
          /\ reminders[a].active = 1
          /\ JobsOf(jobs, a) # {}
          /\ reminders[b].active = 0

\* C13: a process start installs no job for an active reminder whose owner has no
\* stored chat id and leaves every field of its row as it was, and it installs
\* the job of every other active reminder.
C13_BootSkipsUnknownChat ==
    [][ev'.type = "boot" =>
          \A rid \in DOMAIN reminders :
              IF get_user_chat_id(chat, reminders[rid].user_id) = NoUser
              THEN /\ \A j \in jobs' : j.rid # rid
                   /\ reminders'[rid] = reminders[rid]
              ELSE reminders[rid].active = 1 => \E j \in jobs' : j.rid = rid]_vars

\* A process has just started over a store with an active reminder whose owner
\* has no chat id and an active reminder of the owner, who has one.
C13_Witness ==
    /\ ev.type = "boot"
    /\ \E a, b \in DOMAIN reminders :
          /\ reminders[a].active = 1
          /\ get_user_chat_id(chat, reminders[a].user_id) = NoUser
          /\ reminders[b].active = 1
          /\ \E j \in jobs : j.rid = b

\* The job j is overdue by less than the misfire grace, one fire time only has
\* passed since the scheduler last looked at it, and the executor holds no run
\* of the job from before the interval.
OverdueWithinGrace(j) ==
    /\ \A r \in runners : r.id # j.id
    /\ j.next_run_time # NULL
    /\ j.next_run_time < now
    /\ now - j.next_run_time < MisfireGraceSeconds
    /\ LastRunTime(j.trigger, j.next_run_time, now) = j.next_run_time

\* C14: when the scheduler comes to a job that is overdue by less than the
\* misfire grace (300 s), one fire time having passed, it submits exactly one run
\* for that fire time and the job is not due again; and a run submitted less
\* than the grace after its fire time calls _runner, which queues one dispatcher.
C14_LateWithinGraceFiresOnce ==
    [][/\ \A j \in jobs :
             (/\ OverdueWithinGrace(j)
              /\ j \notin jobs'
              /\ reminders' = reminders
              /\ coros' = coros
              /\ ncmd' = ncmd
              /\ phase' = phase)
             => /\ \E r \in runners' \ runners :
                      /\ r.id = j.id
                      /\ r.run_time = j.next_run_time
                      /\ runners' = runners \cup {r}
                /\ \A k \in jobs' : k.id = j.id => k.next_run_time > now
       /\ \A r \in runners :
             (/\ r \notin runners'
              /\ phase' = "running"
              /\ now - r.run_time < MisfireGraceSeconds)
             => /\ Len(coros') = Len(coros) + 1
                /\ SubSeq(coros', 1, Len(coros)) = coros
                /\ coros'[Len(coros')].rid = r.rid
                /\ coros'[Len(coros')].st = "queued"]_vars

\* A run submitted late, within the grace, for a fire time that has passed.
C14_Witness ==
    \E r \in runners : r.run_time < now /\ now - r.run_time < MisfireGraceSeconds

C16_RunnerDoesNotWait ==
    /\ [](\A r \in runners : phase = "running" => ENABLED RunnerRun(r))
    /\ [][\A r \in runners :
             (r \notin runners' /\ phase' = "running" /\ coros' # coros)
             => /\ SubSeq(coros', 1, Len(coros)) = coros
                /\ coros'[Len(coros')].rid = r.rid
                /\ coros'[Len(coros')].st = "queued"]_vars

\* _runner has returned (its dispatcher is queued) while an earlier delivery is
\* still awaited.
C16_Witness ==
    \E i, k \in 1..Len(coros) : coros[i].st = "sending" /\ coros[k].st = "queued"

\* C17: in every job store the program reaches, unschedule_one for a key that
\* has no job returns the store as it is, and for any key a second call returns
\* what the first call returned, with no job under the key.
C17_UnscheduleIdempotent ==
    \A rid \in Rids :
        /\ JobsOf(jobs, rid) = {} => unschedule_one(jobs, OwnerUserId, rid) = jobs
        /\ unschedule_one(unschedule_one(jobs, OwnerUserId, rid), OwnerUserId, rid)
               = unschedule_one(jobs, OwnerUserId, rid)
        /\ JobsOf(unschedule_one(jobs, OwnerUserId, rid), rid) = {}

\* A reminder switched off, its job removed, while another key keeps its job.
C17_Witness ==
    \E rid \in DOMAIN reminders :
        /\ reminders[rid].active = 0
        /\ calls[rid] >= 1
        /\ JobsOf(jobs, rid) = {}
        /\ IsOnce(rid) = FALSE
        /\ jobs # {}

\* C18: when the dispatcher has finished a delivery for a recurring reminder whose
\* row is still stored, the row's next_run_at is the next_run_time of the job
\* stored under the reminder's key at that moment (NULL only when no job is
\* stored), and it is later than the fire time of the firing just handled.
C18_NextRunAtFromEngine ==
    [][\A i \in 1..Len(coros) :
          (/\ coros[i].st = "sending"
           /\ coros' = Remove(coros, i)
           /\ ev'.type = "done"
           /\ ev'.rid = coros[i].rid
           /\ coros[i].rid \in DOMAIN reminders
           /\ reminders[coros[i].rid].active = 1
           /\ parse_schedule(coros[i].schedule).kind # "ONCE")
          => LET rid == coros[i].rid
                 jid == job_id_for(reminders[rid].user_id, rid)
             IN  /\ reminders'[rid].next_run_at = JobNextRunTime(jobs', jid)
                 /\ reminders'[rid].next_run_at = NULL => \A j \in jobs' : j.id # jid
                 /\ reminders'[rid].next_run_at # NULL
                        => reminders'[rid].next_run_at > coros[i].run_time]_vars

\* A recurring reminder handled, its next_run_at the day after the firing.
C18_Witness ==
    /\ ev.type = "done"
    /\ ev.rid \in DOMAIN reminders
    /\ IsOnce(ev.rid) = FALSE
    /\ reminders[ev.rid].active = 1
    /\ reminders[ev.rid].next_run_at = FireTime(MaxDay)

\* Whether ZoneInfo resolves the name a row is scheduled with.
Resolvable(row) == tzdata /\ row.timezone \in {BogotaZone, "", MissingZone}

\* C19: whatever the row's timezone holds (a known name, an unknown one, an empty
\* text, nothing) and whether or not the zone database is there, switching a
\* reminder with a valid schedule on installs its job, and the job's trigger
\* runs in the named zone when ZoneInfo resolves it and in UTC when it does not.
C19_ZoneNeverRefuses ==
    [][\A rid \in DOMAIN reminders :
          (reminders[rid].active = 0 /\ rid \in DOMAIN reminders' /\ reminders'[rid].active = 1)
          => /\ Cardinality(JobsOf(jobs', rid)) = 1
             /\ \A j \in JobsOf(jobs', rid) :
                   /\ j.next_run_time # NULL
                   /\ j.trigger.tz = IF Resolvable(reminders[rid])
                                     THEN BogotaUtcOffset ELSE 0]_vars

\* A job installed for a row whose zone name ZoneInfo does not resolve.
C19_Witness ==
    \E rid \in DOMAIN reminders :
        /\ reminders[rid].timezone \notin {BogotaZone, "", MissingZone}
        /\ reminders[rid].active = 1
        /\ \E j \in JobsOf(jobs, rid) : j.trigger.tz = 0

\* The form a stored schedule text stands for.
CaseOf(rid) == CHOOSE c \in ScheduleCases : c.text = reminders[rid].schedule
\* A fire time as seconds of wall clock, in the zone the reminder is scheduled
\* in, counted from Monday 2026-01-19 00:00.
WallClock(rid, t) == t + (get_tz(RowZone(reminders[rid])) - BogotaUtcOffset)
\* Whether the fire time t is one the schedule of reminder rid names.
OnSchedule(rid, t) ==
    /\ WallClock(rid, t) % SecondsPerDay = CaseOf(rid).tod
    /\ IF CaseOf(rid).once = NULL
       THEN (WallClock(rid, t) \div SecondsPerDay) % 7 \in CaseOf(rid).days
       ELSE WallClock(rid, t) \div SecondsPerDay = CaseOf(rid).once

\* C20: for a valid schedule text, its keyword in any case, every fire time of the
\* installed job and every run the scheduler submits is at HH:MM of a day of the
\* form's day set (WEEKDAY Mon-Fri, WEEKEND Sat-Sun, EVERYDAY and DAILY every
\* day, DAYS the days listed), and for ONCE at its date and time only.
C20_FiresOnScheduleOnly ==
    /\ \A j \in jobs : j.next_run_time # NULL => OnSchedule(j.rid, j.next_run_time)
    /\ \A r \in runners : OnSchedule(r.rid, r.run_time)

\* A run of the schedule days@tue,FRI@20:00 submitted on the Friday.
C20_Witness ==
    \E r \in runners :
        /\ CaseOf(r.rid).days = {1, 4}
        /\ WallClock(r.rid, r.run_time) \div SecondsPerDay = 4
        /\ OnSchedule(r.rid, r.run_time)

\* What was put into the schedule text of the stored reminder rid.
TextOf(rid) == CHOOSE c \in ParseCases : c.text = reminders[rid].schedule
\* Whether the text has one of the defects a syntax error is promised for.
IllFormed(c) ==
    \/ c.kind = "unknown"
    \/ ~c.fields
    \/ c.time = "range"
    \/ c.days \in {"badtoken", "empty"}
    \/ c.date = "notcalendar"

\* C21: for every text with an unknown keyword, a field missing or too many, an
\* hour above 23 or a minute above 59, a day token outside the seven, an empty
\* day list or a date off the calendar, parse_schedule raises ValueError with a
\* reason, and schedule_one installs no job for it.
C21_IllFormedIsValueError ==
    \A rid \in DOMAIN reminders :
        IllFormed(TextOf(rid))
        => /\ parse_schedule(reminders[rid].schedule) \in
                 {ValueError(r) : r \in {"Schedule invalido", "Formato DAYS invalido",
                                         "Formato ONCE invalido", "Hora invalida",
                                         "Fecha invalida", "Dia invalido",
                                         "DAYS requiere al menos un dia"}}
           /\ JobsOf(jobs, rid) = {}

\* rem_on has been handled for a DAYS text with a token outside the seven.
C21_Witness ==
    \E rid \in DOMAIN reminders :
        /\ TextOf(rid).days = "badtoken"
        /\ TextOf(rid).time = "padded"
        /\ reminders[rid].active = 1

\* C22: a schedule text is accepted only with its time in zero-padded HH:MM form:
\* for a text whose time has a one-digit hour or whitespace around it,
\* parse_schedule raises, and schedule_one installs no job.
C22_TimeZeroPaddedOnly ==
    \A rid \in DOMAIN reminders :
        (reminders[rid].active = 1 /\ TextOf(rid).time \in {"onedigit", "spaced"})
        => /\ ~parse_schedule(reminders[rid].schedule).ok
           /\ JobsOf(jobs, rid) = {}

\* C23: the descriptor of a DAYS text depends only on the set of its day tokens:
\* the text a job was installed for and any other accepted DAYS text with the
\* same set of days and the same time have equal descriptors.
C23_DaysDescriptorBySet ==
    \A rid \in DOMAIN reminders : \A c \in ParseCases :
        (/\ JobsOf(jobs, rid) # {}
         /\ TextOf(rid).kind = "DAYS"
         /\ TextOf(rid).time = "padded"
         /\ c.kind = "DAYS"
         /\ c.time = "padded"
         /\ parse_schedule(c.text).ok
         /\ c.dayset = TextOf(rid).dayset
         /\ parse_schedule(c.text).hhmm = parse_schedule(reminders[rid].schedule).hhmm)
        => parse_schedule(c.text) = parse_schedule(reminders[rid].schedule)

\* A descriptor written back in the grammar: the keyword of its kind, the day
\* list (DAYS) or the date (ONCE), and the time, joined by "@".
Serialize(d) ==
    (CASE d.kind = "WEEKDAY" -> KwWeekday
       [] d.kind = "WEEKEND" -> KwWeekend
       [] d.kind = "EVERYDAY" -> KwEveryday
       [] d.kind = "DAYS" -> KwDays \o d.dow \o <<"@">>
       [] d.kind = "ONCE" -> KwOnce \o d.date_once \o <<"@">>)
    \o d.hhmm

\* C24: for every text parse_schedule accepts (a job has been installed for it),
\* the descriptor written back in the grammar parses to the same descriptor.
C24_ParseSerializeParse ==
    \A rid \in DOMAIN reminders :
        (JobsOf(jobs, rid) # {} /\ parse_schedule(reminders[rid].schedule).ok)
        => parse_schedule(Serialize(parse_schedule(reminders[rid].schedule)))
               = parse_schedule(reminders[rid].schedule)

\* A job installed for a DAYS text that is not written the way its descriptor
\* is written back: other letter case, repeated tokens.
C24_Witness ==
    \E rid \in DOMAIN reminders :
        /\ JobsOf(jobs, rid) # {}
        /\ TextOf(rid).kind = "DAYS"
        /\ Serialize(parse_schedule(reminders[rid].schedule)) # reminders[rid].schedule
        /\ Len(Serialize(parse_schedule(reminders[rid].schedule))) = Len(reminders[rid].schedule)

C26_CoalescedFiresOnce ==
    [][/\ \A r \in runners' \ runners :
              r.coalesced =>
                  /\ runners' \ runners = {r}
                  /\ \E j \in jobs :
                         /\ j.id = r.id
                         /\ r.run_time = LastRunTime(j.trigger, j.next_run_time, now)
                         /\ get_next_fire_time(j.trigger, r.run_time, now) > now
       /\ \A r \in runners \ runners' :
              r.coalesced =>
                  /\ Len(coros') = Len(coros) + 1
                  /\ coros'[Len(coros')].rid = r.rid
                  /\ coros'[Len(coros')].run_time = r.run_time]_vars

\* C27: the run of a one-shot job that was installed after its target instant
\* calls the runner (one dispatcher is queued) when the target lies at most the
\* misfire grace before now; otherwise it calls nothing, no job remains for the
\* key and the reminder is inactive.
C27_PastOnceFiresOrIsRetired ==
    [][\A r \in runners \ runners' :
          (r.late /\ phase' = "running") =>
              IF now - r.run_time <= MisfireGraceSeconds
              THEN /\ Len(coros') = Len(coros) + 1
                   /\ coros'[Len(coros')].rid = r.rid
              ELSE /\ coros' = coros
                   /\ \A j \in jobs' : j.id # r.id
                   /\ \A x \in DOMAIN reminders' :
                          reminders'[x].id = r.rid => reminders'[x].active = 0]_vars

\* C28: whenever a dispatcher sends, it sends to the chat id stored for the
\* owner at that moment.
C28_SendsToStoredChat ==
    ev.type = "send" => ev.chat_id = get_user_chat_id(chat, OwnerUserId)

\* C29: the reminder rem_test creates is active and of kind ONCE, and its job
\* is due more than one and at most two minutes after the command, whether or
\* not the timezone database resolves America/Bogota.
C29_TestFiresInTwoMinutes ==
    [][nextId' = nextId + 1 =>
          /\ reminders'[nextId].active = 1
          /\ parse_schedule(reminders'[nextId].schedule).kind = "ONCE"
          /\ \E j \in jobs' :
                 /\ j.rid = nextId
                 /\ j.next_run_time - now > SecondsPerMinute
                 /\ j.next_run_time - now <= 2 * SecondsPerMinute]_vars

\* C30: every schedule_one call that installs the job of an active reminder
\* (from rem_add, rem_on, rem_test or the boot reconcile) leaves the reminder's
\* last_run_at and next_run_at both null, whatever was recorded before; and
\* schedule_one for an inactive reminder leaves the table as it is.
C30_ScheduleOneClearsRunTimes ==
    /\ [][\A rid \in Rids :
             calls'[rid] > calls[rid] =>
                 /\ rid \in DOMAIN reminders'
                 /\ reminders'[rid].last_run_at = NULL
                 /\ reminders'[rid].next_run_at = NULL]_vars
    /\ [](\A x \in DOMAIN reminders :
             reminders[x].active # 1 => schedule_one_rows(reminders, reminders[x]) = reminders)

\* A process has just started over a store with an active reminder that was
\* delivered before the restart, and an inactive one with a recorded delivery.
C30_Witness ==
    /\ ev.type = "boot"
    /\ \E x \in DOMAIN reminders :
          /\ x \in delivered
          /\ reminders[x].active = 1
          /\ reminders[x].last_run_at = NULL
          /\ \E j \in jobs : j.rid = x
    /\ \E y \in DOMAIN reminders :
          /\ reminders[y].active = 0
          /\ reminders[y].last_run_at # NULL

\* C31: the schedule text of every stored reminder is one parse_schedule
\* accepts, and so is the text every dispatcher under way has read: neither
\* schedule_one nor the dispatcher fails on parsing a stored schedule.
C31_StoredSchedulesParse ==
    /\ \A x \in DOMAIN reminders : parse_schedule(reminders[x].schedule).ok
    /\ \A i \in 1..Len(coros) :
           coros[i].st = "sending" => parse_schedule(coros[i].schedule).ok

\* A process has just started over a store that holds a reminder made by
\* rem_add and one made by rem_test, and has installed a job from a stored text.
C31_Witness ==
    /\ ev.type = "boot"
    /\ \E a, b \in DOMAIN reminders :
          /\ reminders[a].schedule \in AddSchedules
          /\ reminders[b].schedule \notin AddSchedules
          /\ \E j \in jobs : j.rid = a

\* C32: job_id_for gives two (user_id, reminder_id) pairs the same key exactly
\* when they are the same pair; and installing or removing the job of one
\* reminder leaves the job of every other reminder in the store as it was,
\* the reminder itself having one job after an install and none after a removal.
C32_KeysApart ==
    /\ [](\A p, q \in {p[1] : p \in KeyRows} \X {p[2] : p \in KeyRows} :
             (job_id_for(p[1], p[2]) = job_id_for(q[1], q[2])) <=> (p = q))
    /\ [][/\ \A j \in jobs : j.rid # ev'.rid => j \in jobs'
          /\ \A j \in jobs' : j.rid # ev'.rid => j \in jobs
          /\ Cardinality({j \in jobs' : j.rid = ev'.rid}) =
                 IF ev'.type = "install" THEN 1 ELSE 0]_vars

\* A job has just been installed or removed for a reminder while the store holds
\* the job of another reminder whose ids read the same one after the other.
C32_Witness ==
    /\ ev.type \in {"install", "remove"}
    /\ \E j \in jobs :
          /\ j.rid # ev.rid
          /\ job_id_for_joined(reminders[j.rid].user_id, j.rid) =
                 job_id_for_joined(reminders[ev.rid].user_id, ev.rid)

\* C33: mark_tasks_missed_for_date for a user and a date sets to missed exactly
\* the tasks of that user and that date that are pending, changing nothing else
\* of them, returns their number, and leaves every other task as it was.
C33_CloseOfDayFrame ==
    [][\A u \in {OwnerUserId, StrangerUserId}, d \in TaskDates :
          mark_tasks_missed_for_date(u, d) =>
              /\ DOMAIN tasks' = DOMAIN tasks
              /\ \A i \in DOMAIN tasks :
                     IF /\ tasks[i].user_id = u
                        /\ tasks[i].target_date = d
                        /\ tasks[i].status = "pending"
                     THEN /\ tasks'[i].status = "missed"
                          /\ [tasks'[i] EXCEPT !.status = "pending", !.missed_at = NULL]
                                 = [tasks[i] EXCEPT !.missed_at = NULL]
                     ELSE tasks'[i] = tasks[i]
              /\ ret'.count = Cardinality({i \in DOMAIN tasks :
                                    /\ tasks[i].user_id = u
                                    /\ tasks[i].target_date = d
                                    /\ tasks[i].status = "pending"})]_vars

\* A close of day has just changed one task to missed, next to a done task of
\* the same user and date.
C33_Witness ==
    /\ ret = [op |-> "mark_tasks_missed_for_date", count |-> 1]
    /\ \E i, j \in DOMAIN tasks :
          /\ tasks[i].status = "missed"
          /\ tasks[i].missed_at = now
          /\ tasks[j].status = "done"
          /\ tasks[j].user_id = tasks[i].user_id
          /\ tasks[j].target_date = tasks[i].target_date

\* C34: every stored task is pending, done or missed; a task that is done stays
\* done, with the done_at it has, for as long as it is stored; and a task that
\* is done or missed does not become pending again.
C34_TaskStatusMoves ==
    /\ [](\A i \in DOMAIN tasks : tasks[i].status \in {"pending", "done", "missed"})
    /\ [][\A i \in DOMAIN tasks \cap DOMAIN tasks' :
             /\ tasks[i].status = "done" =>
                    /\ tasks'[i].status = "done"
                    /\ tasks'[i].done_at = tasks[i].done_at
             /\ tasks[i].status # "pending" => tasks'[i].status # "pending"]_vars

\* A mark-done call has just found nothing to change, at a time when the table
\* holds a task done earlier and a missed task.
C34_Witness ==
    /\ ret = [op |-> "mark_task_done_by_id", count |-> 0]
    /\ \E i, j \in DOMAIN tasks :
          /\ tasks[i].status = "done"
          /\ tasks[i].done_at < now
          /\ tasks[j].status = "missed"
====
